---- MODULE Spec2Model ----
(***************************************************************************)
(* Sequential copy-on-write B-tree (sbtree.c) on top of the light-weight   *)
(* page buffer (dbbuffer.c).                                               *)
(*                                                                         *)
(* A page is modelled as its 4-byte logical id, its 2-byte count field and *)
(* the 32-bit words that follow the 6-byte header (word j lives at byte    *)
(* offset headerSize + 4*j).  Keys and page ids are 4 bytes wide, a data   *)
(* payload is dataSize bytes wide, so every field the code touches is a    *)
(* whole word and the byte offsets of the source are kept as they are.     *)
(* A key is held as the int32 the comparator reads it as: the unsigned     *)
(* key u is the integer u when u < 2^31 and u - 2^32 otherwise.            *)
(***************************************************************************)
EXTENDS Integers, Sequences, FiniteSets, TLC

(* ------------------------------------------------------------------ *)
(* Program constants                                                   *)
(* ------------------------------------------------------------------ *)
keySize == 4
dataSize == 12
headerSize == 6
idSize == 4
recordSize == keySize + dataSize
BUFFER_EMPTY_ID == 2147483647
NOT_MODIFIED_VAL == 100
MAX_LEVEL == 5
FLAG_INTERIOR == 10000
FLAG_ROOT == 20000
MaxInt32 == 2147483647
MinInt32 == (-2147483647) - 1

(* ------------------------------------------------------------------ *)
(* Bounds of the model                                                 *)
(* ------------------------------------------------------------------ *)
MaxPuts == 11
MaxFlushes == 2
MaxReads == 1
MaxJumpAt == 1
MaxNumPages == 4
MaxDeepPuts == 36
MaxPoolPuts == 6
MaxPoolReads == 2
MaxBufReads == 5
MaxBufMarks == 2
MaxBufPages == 4
SmallBase == 6
WideBase == 65537
LoopFuel == 8
KeyStep == 2

\* page sizes of the two configurations explored: 28 bytes gives one record
\* per leaf and two separators per interior node, 40 bytes gives two records
\* per leaf and three separators per interior node
PageSizes == {28, 40}
\* the page size of the deep-tree runs: one record per leaf, one separator per
\* interior node
DeepPageSizes == {24}
\* values an out-of-buffer read of four bytes can produce
JunkWords == {-1, 6}
\* what the build makes of the signed overflow in uint32Compare
CmpBuilds == {"wrap", "fold"}

NULL == -1

VARIABLES
    pageSize,         \* dbbuffer.pageSize
    numPages,         \* dbbuffer.numPages
    cmpBuild,         \* outcome of signed overflow in the comparator
    storage,          \* the storage back-end: sequence of pages, page p at index p+1
    buffer,           \* dbbuffer.buffer: slot -> page
    status,           \* dbbuffer.status
    modified,         \* dbbuffer.modified
    nextPageId,       \* dbbuffer.nextPageId
    nextPageWriteId,  \* dbbuffer.nextPageWriteId
    numReads,         \* dbbuffer.numReads
    numWrites,        \* dbbuffer.numWrites
    bufferHits,       \* dbbuffer.bufferHits
    lastHit,          \* dbbuffer.lastHit
    nextBufferPage,   \* dbbuffer.nextBufferPage
    levels,           \* sbtreeState.levels
    activePath,       \* sbtreeState.activePath, shared with dbbuffer.activePath
    it,               \* the sbtreeIterator in use
    itState,          \* history: "none", "open", or "ended" once sbtreeNext returned 0
    itOut,            \* history: <<key, data>> of every sbtreeNext that returned 1
    writeLog,         \* history: page numbers returned by writePage, in call order
    inserted,         \* history: <<key, data>> of every sbtreePut, in call order
    nFlush,           \* history: number of sbtreeFlush calls
    flushLog,         \* history: the number of puts made before each sbtreeFlush
    ioErrors,         \* history: storage calls that returned an error
    pathOverrun,      \* history: activePath was written outside its bounds
    readLog,          \* history: the readPage calls of the last operation
    hitSlot,          \* history: the slot of the most recent buffer hit, -1 if none
    aged,             \* pages 1 .. aged of the storage are kept implicit
    twin,             \* the same program run with a pool of two slots
    nReads,           \* history: number of get / iterator operations
    lastOp            \* history: the last operation and what it returned

vars == <<pageSize, numPages, cmpBuild, storage, buffer, status, modified,
          nextPageId, nextPageWriteId, numReads, numWrites, bufferHits,
          lastHit, nextBufferPage, levels, activePath, it, itState, itOut, writeLog,
          inserted, nFlush, flushLog, ioErrors, pathOverrun, readLog, hitSlot,
          aged, twin,
          nReads, lastOp>>

(* ------------------------------------------------------------------ *)
(* Pages                                                               *)
(* ------------------------------------------------------------------ *)
\* sbtreeInit: derived sizes
maxRecordsPerPage(ps) == (ps - headerSize) \div recordSize
maxInteriorRecordsPerPage(ps) == (ps - headerSize - idSize) \div (keySize + idSize)
NumWords(ps) == (ps - headerSize) \div 4

\* C integer division truncates toward zero
CDiv(a, b) == IF a >= 0 THEN a \div b ELSE -((-a) \div b)

Inc32(x) == IF x = MaxInt32 THEN MinInt32 ELSE x + 1

ZeroPage(ps) == [id |-> 0, cnt |-> 0, w |-> [j \in 1..NumWords(ps) |-> 0]]

\* the 32-bit word at byte offset off of a page; junk stands for the bytes
\* found when the offset lies outside the page
ReadWord(pg, off, junk) ==
    LET j == (off - headerSize) \div 4 + 1
    IN IF off >= headerSize /\ j \in DOMAIN pg.w THEN pg.w[j] ELSE junk

WriteWord(pg, off, v) ==
    LET j == (off - headerSize) \div 4 + 1
    IN IF off >= headerSize /\ j \in DOMAIN pg.w THEN [pg EXCEPT !.w[j] = v] ELSE pg

SBTREE_GET_COUNT(pg) == pg.cnt % 10000
SBTREE_IS_INTERIOR(pg) == IF pg.cnt >= 10000 THEN 1 ELSE 0
SBTREE_IS_ROOT(pg) == IF pg.cnt >= 20000 THEN 1 ELSE 0
SBTREE_INC_COUNT(pg) == [pg EXCEPT !.cnt = @ + 1]
SBTREE_SET_INTERIOR(pg) == [pg EXCEPT !.cnt = @ + FLAG_INTERIOR]
SBTREE_SET_ROOT(pg) == [pg EXCEPT !.cnt = @ + FLAG_ROOT]

\* byte offsets used by sbtree.c
KeyOff(i) == headerSize + keySize * i
PtrOff(ps, i) == headerSize + keySize * maxInteriorRecordsPerPage(ps) + idSize * i
RecOff(i) == headerSize + recordSize * i

ReadData(pg, off) == [d \in 1..(dataSize \div 4) |-> ReadWord(pg, off + 4 * (d - 1), 0)]
RECURSIVE WriteDataFrom(_, _, _, _)
WriteDataFrom(pg, off, data, d) ==
    IF d > Len(data) THEN pg
    ELSE WriteDataFrom(WriteWord(pg, off + 4 * (d - 1), data[d]), off, data, d + 1)
WriteData(pg, off, data) == WriteDataFrom(pg, off, data, 1)

(* ------------------------------------------------------------------ *)
(* Keys                                                                *)
(* ------------------------------------------------------------------ *)
\* the order of the keys as unsigned 32-bit integers
ULess(a, b) ==
    IF (a >= 0) = (b >= 0) THEN a < b ELSE a >= 0

\* uint32Compare: the sign of the int32 difference a - b.  The difference
\* overflows when the keys lie 2^31 or more apart; the build either wraps it
\* or folds the test into a signed comparison of a and b.
uint32Compare(a, b, build) ==
    IF build = "fold" THEN (IF a < b THEN -1 ELSE IF a > b THEN 1 ELSE 0)
    ELSE IF a >= 0 /\ b < 0 THEN (IF a > MaxInt32 + b THEN -1 ELSE 1)
    ELSE IF a < 0 /\ b >= 0 THEN (IF a < MinInt32 + b THEN 1 ELSE -1)
    ELSE (IF a < b THEN -1 ELSE IF a > b THEN 1 ELSE 0)

(* ------------------------------------------------------------------ *)
(* The machine state as one record, so that the operations compose     *)
(* ------------------------------------------------------------------ *)
Cur == [pageSize |-> pageSize, numPages |-> numPages, cmpBuild |-> cmpBuild,
        storage |-> storage, buffer |-> buffer, status |-> status,
        modified |-> modified, nextPageId |-> nextPageId,
        nextPageWriteId |-> nextPageWriteId, numReads |-> numReads,
        numWrites |-> numWrites, bufferHits |-> bufferHits, lastHit |-> lastHit,
        nextBufferPage |-> nextBufferPage, levels |-> levels,
        activePath |-> activePath, writeLog |-> writeLog,
        fault |-> "none", oob |-> <<>>, ioErrors |-> ioErrors,
        pathOverrun |-> pathOverrun, readLog |-> <<>>, hitSlot |-> hitSlot,
        aged |-> aged]

Install(s) ==
    /\ pageSize' = s.pageSize
    /\ numPages' = s.numPages
    /\ cmpBuild' = s.cmpBuild
    /\ storage' = s.storage
    /\ buffer' = s.buffer
    /\ status' = s.status
    /\ modified' = s.modified
    /\ nextPageId' = s.nextPageId
    /\ nextPageWriteId' = s.nextPageWriteId
    /\ numReads' = s.numReads
    /\ numWrites' = s.numWrites
    /\ bufferHits' = s.bufferHits
    /\ lastHit' = s.lastHit
    /\ nextBufferPage' = s.nextBufferPage
    /\ levels' = s.levels
    /\ activePath' = s.activePath
    /\ writeLog' = s.writeLog
    /\ ioErrors' = s.ioErrors
    /\ pathOverrun' = s.pathOverrun
    /\ readLog' = s.readLog
    /\ hitSlot' = s.hitSlot
    /\ aged' = s.aged

(* ------------------------------------------------------------------ *)
(* Storage back-end (memory variant): a flat vector, extended on write *)
(* ------------------------------------------------------------------ *)
StorageWrite(st, ps, pageNum, pg) ==
    IF pageNum + 1 <= Len(st) THEN [st EXCEPT ![pageNum + 1] = pg]
    ELSE st \o [i \in 1..(pageNum - Len(st)) |-> ZeroPage(ps)] \o <<pg>>

\* an out-of-range read fails and leaves the destination as it was
StorageRead(st, pageNum, dst) ==
    IF pageNum >= 0 /\ pageNum + 1 <= Len(st) THEN st[pageNum + 1] ELSE dst

\* the back-end as the buffer calls it.  s.fault names the kind of call the
\* device fails during the operation under way: a failed write stores
\* nothing, a failed read leaves the destination as it was.
\* A pool that has been in use for long holds s.aged pages, numbers
\* 1 .. s.aged, that were written zeroed by initBufferPage and stamped with
\* their id by writePage; s.storage leaves them out, page 0 and the pages
\* above s.aged follow each other in it.
IsAged(s, pageNum) == 1 <= pageNum /\ pageNum <= s.aged
AgedPage(s, pageNum) == [ZeroPage(s.pageSize) EXCEPT !.id = pageNum]
StoredAt(s, pageNum) == IF pageNum <= 0 THEN pageNum ELSE pageNum - s.aged
WriteFails(s) == s.fault = "write"
ReadFails(s, pageNum) ==
    s.fault = "read" \/ pageNum < 0 \/ pageNum + 1 > s.aged + Len(s.storage)
storageWritePage(s, pageNum, pg) ==
    IF WriteFails(s) THEN s.storage
    ELSE StorageWrite(s.storage, s.pageSize, StoredAt(s, pageNum), pg)
storageReadPage(s, pageNum, dst) ==
    IF ReadFails(s, pageNum) THEN dst
    ELSE IF IsAged(s, pageNum) THEN AgedPage(s, pageNum)
    ELSE StorageRead(s.storage, StoredAt(s, pageNum), dst)

(* ------------------------------------------------------------------ *)
(* dbbuffer.c                                                          *)
(* ------------------------------------------------------------------ *)
initBufferPage(s, slot) == [s EXCEPT !.buffer[slot] = ZeroPage(s.pageSize)]

\* mutant: the physical page number is not advanced
writePageNoAdvance(s, slot) ==
    LET pageNum == IF s.nextPageWriteId > 0 THEN s.nextPageWriteId - 1 ELSE 0
        pg == [s.buffer[slot] EXCEPT !.id = s.nextPageId]
    IN [s |-> [s EXCEPT !.nextPageId = @ + 1,
                        !.buffer[slot] = pg,
                        !.storage = StorageWrite(s.storage, s.pageSize, pageNum, pg),
                        !.status[slot] = pageNum,
                        !.modified[slot] = NOT_MODIFIED_VAL,
                        !.numWrites = @ + 1,
                        !.writeLog = Append(@, pageNum)],
        pageNum |-> pageNum]

\* mutant: a page that came from storage is written back where it came from
writePageInPlace(s, slot) ==
    LET old == s.status[slot] # BUFFER_EMPTY_ID /\ s.status[slot] < s.nextPageWriteId
        pageNum == IF old THEN s.status[slot] ELSE s.nextPageWriteId
        pg == [s.buffer[slot] EXCEPT !.id = s.nextPageId]
    IN [s |-> [s EXCEPT !.nextPageWriteId = IF old THEN @ ELSE @ + 1,
                        !.nextPageId = @ + 1,
                        !.buffer[slot] = pg,
                        !.storage = StorageWrite(s.storage, s.pageSize, pageNum, pg),
                        !.status[slot] = pageNum,
                        !.modified[slot] = NOT_MODIFIED_VAL,
                        !.numWrites = @ + 1,
                        !.writeLog = Append(@, pageNum)],
        pageNum |-> pageNum]

\* mutant: the logical id is stamped but not advanced
writePageSameId(s, slot) ==
    LET pageNum == s.nextPageWriteId
        pg == [s.buffer[slot] EXCEPT !.id = s.nextPageId]
    IN [s |-> [s EXCEPT !.nextPageWriteId = @ + 1,
                        !.buffer[slot] = pg,
                        !.storage = StorageWrite(s.storage, s.pageSize, pageNum, pg),
                        !.status[slot] = pageNum,
                        !.modified[slot] = NOT_MODIFIED_VAL,
                        !.numWrites = @ + 1,
                        !.writeLog = Append(@, pageNum)],
        pageNum |-> pageNum]

\* mutant: the write counter is not advanced
writePageUncounted(s, slot) ==
    LET pageNum == s.nextPageWriteId
        pg == [s.buffer[slot] EXCEPT !.id = s.nextPageId]
    IN [s |-> [s EXCEPT !.nextPageWriteId = @ + 1,
                        !.nextPageId = @ + 1,
                        !.buffer[slot] = pg,
                        !.storage = StorageWrite(s.storage, s.pageSize, pageNum, pg),
                        !.status[slot] = pageNum,
                        !.modified[slot] = NOT_MODIFIED_VAL,
                        !.writeLog = Append(@, pageNum)],
        pageNum |-> pageNum]

\* writePage: append the slot's page at the next physical page number; the
\* value the back-end returns is not looked at
writePage(s, slot) ==
    LET pageNum == s.nextPageWriteId
        pg == [s.buffer[slot] EXCEPT !.id = s.nextPageId]
    IN [s |-> [s EXCEPT !.nextPageWriteId = @ + 1,
                        !.nextPageId = @ + 1,
                        !.buffer[slot] = pg,
                        !.storage = storageWritePage(s, pageNum, pg),
                        !.ioErrors = IF WriteFails(s) THEN @ + 1 ELSE @,
                        !.status[slot] = pageNum,
                        !.modified[slot] = NOT_MODIFIED_VAL,
                        !.numWrites = @ + 1,
                        !.writeLog = Append(@, pageNum)],
        pageNum |-> pageNum]

\* readPageBuffer: the value the back-end returns is not looked at, the
\* buffer pointer is returned in every case
readPageBuffer(s, pageNum, bufferNum) ==
    [s EXCEPT !.buffer[bufferNum] = storageReadPage(s, pageNum, @),
              !.ioErrors = IF ReadFails(s, pageNum) THEN @ + 1 ELSE @,
              !.numReads = @ + 1]

\* mutant: the scan for a hit starts at slot 0
HitSlotsFromZero(s, pageNum) == {i \in 0..(s.numPages - 1) : s.status[i] = pageNum}

\* readPage, lines 83-92: the first slot in [1, numPages) holding pageNum
HitSlots(s, pageNum) == {i \in 1..(s.numPages - 1) : s.status[i] = pageNum}
Min(S) == CHOOSE x \in S : \A y \in S : x <= y

\* readPage, lines 115-121: the first empty slot in [2, numPages)
EmptySlots(s) == {i \in 2..(s.numPages - 1) : s.status[i] = BUFFER_EMPTY_ID}

\* readPage, lines 128-139: the round-robin loop; slot -1 when it does not end
RECURSIVE RoundRobin(_, _, _, _)
RoundRobin(s, i, nbp, fuel) ==
    IF fuel = 0 THEN [slot |-> -1, nextBufferPage |-> nbp]
    ELSE LET i1 == IF i > s.numPages - 1 THEN 2 ELSE i
             nbp1 == IF i > s.numPages - 1 THEN 2 ELSE nbp
         IN IF s.status[i1] # s.lastHit
            THEN [slot |-> i1, nextBufferPage |-> nbp1]
            ELSE RoundRobin(s, i1 + 1, nbp1, fuel - 1)

\* mutant: a pool of two slots loads into slot 0
ChooseSlotZero(s, pageNum) ==
    IF s.numPages = 2 THEN [slot |-> 0, nextBufferPage |-> s.nextBufferPage]
    ELSE IF s.activePath[0] = pageNum THEN [slot |-> 1, nextBufferPage |-> s.nextBufferPage]
    ELSE IF s.numPages = 3 THEN [slot |-> 2, nextBufferPage |-> s.nextBufferPage]
    ELSE IF EmptySlots(s) # {} THEN [slot |-> Min(EmptySlots(s)), nextBufferPage |-> s.nextBufferPage]
    ELSE RoundRobin(s, s.nextBufferPage, s.nextBufferPage + 1, LoopFuel)

\* readPage, lines 94-142: the slot a miss loads into
ChooseSlot(s, pageNum) ==
    IF s.numPages = 2 THEN [slot |-> 1, nextBufferPage |-> s.nextBufferPage]
    ELSE IF s.activePath[0] = pageNum THEN [slot |-> 1, nextBufferPage |-> s.nextBufferPage]
    ELSE IF s.numPages = 3 THEN [slot |-> 2, nextBufferPage |-> s.nextBufferPage]
    ELSE IF EmptySlots(s) # {} THEN [slot |-> Min(EmptySlots(s)), nextBufferPage |-> s.nextBufferPage]
    ELSE RoundRobin(s, s.nextBufferPage, s.nextBufferPage + 1, LoopFuel)

\* the page number writePage returned becomes the active-path entry of a level
SetActivePath(wr, l) == [wr.s EXCEPT !.activePath[l] = wr.pageNum]

\* readPage, lines 85-90: a hit on slot i
ReadHit(s, i) ==
    [s |-> [s EXCEPT !.bufferHits = @ + 1, !.lastHit = s.status[i] % 65536,
                     !.hitSlot = i],
     slot |-> i]

\* mutant: a slot marked modified is reused without being written out
WriteBackNever(s, i) == s

\* readPage, lines 145-149: a chosen slot marked modified is written out first
WriteBack(s, i) ==
    IF s.modified[i] # NOT_MODIFIED_VAL
    THEN SetActivePath(writePage(s, i), s.modified[i])
    ELSE s

\* readPage, lines 151-153: load the page into slot i
LoadSlot(s, pageNum, i) ==
    [s |-> readPageBuffer([s EXCEPT !.status[i] = pageNum,
                                    !.modified[i] = NOT_MODIFIED_VAL], pageNum, i),
     slot |-> i]

\* readPage, lines 94-153: a miss, c being the slot chosen
ReadMiss(s, pageNum, c) ==
    LoadSlot(WriteBack([s EXCEPT !.nextBufferPage = c.nextBufferPage], c.slot),
             pageNum, c.slot)

\* what a readPage call can be seen to touch
PoolView(s) ==
    [numReads |-> s.numReads, numWrites |-> s.numWrites,
     bufferHits |-> s.bufferHits, lastHit |-> s.lastHit, status |-> s.status,
     modified |-> s.modified, buffer |-> s.buffer, storage |-> s.storage,
     root |-> s.activePath[0], hitSlot |-> s.hitSlot,
     nextBufferPage |-> s.nextBufferPage, activePath |-> s.activePath,
     nextPageWriteId |-> s.nextPageWriteId]

\* history: one entry per readPage call, r being what the call returned
LogRead(s, pageNum, hit, r) ==
    [r EXCEPT !.s.readLog =
         Append(@, [pageNum |-> pageNum, slot |-> r.slot, hit |-> hit,
                    pre |-> PoolView(s), post |-> PoolView(r.s)])]

\* readPage: returns the state after the call and the slot returned
readPage(s, pageNum) ==
    IF HitSlots(s, pageNum) # {}
    THEN LogRead(s, pageNum, TRUE, ReadHit(s, Min(HitSlots(s, pageNum))))
    ELSE LogRead(s, pageNum, FALSE, ReadMiss(s, pageNum, ChooseSlot(s, pageNum)))

(* ------------------------------------------------------------------ *)
(* sbtree.c                                                            *)
(* ------------------------------------------------------------------ *)
\* sbtreeInit, line 114: the root flag on the zeroed write buffer
MarkRoot(s) == [s EXCEPT !.buffer[0] = SBTREE_SET_ROOT(@)]

\* sbtreeInit, after dbbufferInit: write the empty root, zero the write buffer
sbtreeInit(s) ==
    initBufferPage(SetActivePath(writePage(MarkRoot(initBufferPage(s, 0)), 0), 0), 0)

\* mutant: a node is never found full, so nothing splits and the tree never grows
NodeFullNever(s, l, count) == FALSE

\* mutant: a node is found full one child later
NodeFullLate(s, l, count) ==
    \/ count > maxInteriorRecordsPerPage(s.pageSize) + 1
    \/ (l < s.levels - 1 /\ count > maxInteriorRecordsPerPage(s.pageSize))

\* sbtreeUpdateIndex, line 276: the fullness test
NodeFull(s, l, count) ==
    \/ count > maxInteriorRecordsPerPage(s.pageSize)
    \/ (l < s.levels - 1 /\ count >= maxInteriorRecordsPerPage(s.pageSize))

RECURSIVE UpdateLoop(_, _, _, _, _, _)

\* sbtreeUpdateIndex, lines 280-284: a full node above the deepest level is
\* written out once more with its last child pointer brought up to date
CloseNode(s, l, count, prevPageNum) ==
    IF l < s.levels - 1
    THEN SetActivePath(
             writePage([s EXCEPT !.buffer[0] =
                            WriteWord(@, PtrOff(s.pageSize, count), prevPageNum)], 0), l)
    ELSE s

\* mutant: the node that replaces a full one is built without the interior flag
NewNodePageUnflagged(ps, deepest, key, pageNum) ==
    WriteWord(IF deepest
              THEN SBTREE_INC_COUNT(WriteWord(ZeroPage(ps), KeyOff(0), key))
              ELSE ZeroPage(ps),
              PtrOff(ps, 0), pageNum)

\* sbtreeUpdateIndex, lines 286-298: the page of the node that replaces a full one
NewNodePage(ps, deepest, key, pageNum) ==
    WriteWord(IF deepest
              THEN SBTREE_INC_COUNT(WriteWord(SBTREE_SET_INTERIOR(ZeroPage(ps)),
                                              KeyOff(0), key))
              ELSE SBTREE_SET_INTERIOR(ZeroPage(ps)),
              PtrOff(ps, 0), pageNum)

\* sbtreeUpdateIndex, lines 286-302: write the new node
NewNode(s, l, key, pageNum) ==
    writePage([initBufferPage(s, 0) EXCEPT !.buffer[0] =
                   NewNodePage(s.pageSize, l = s.levels - 1, key, pageNum)], 0)

\* sbtreeUpdateIndex, lines 301-303: the new node enters the active path and
\* the loop goes on one level up
Ascend(wr, minkey, key, l, prevPageNum) ==
    UpdateLoop(SetActivePath(wr, l), minkey, key, l - 1, prevPageNum, wr.pageNum)

\* sbtreeUpdateIndex, lines 277-304: the node on level l is full
SplitNode(s, minkey, key, l, pageNum) ==
    Ascend(NewNode(s, l, key, pageNum), minkey, key, l, s.activePath[l])

\* sbtreeUpdateIndex, lines 310-340: the page of a node that takes the child
AppendChildPage(s, l, count, minkey, key, prevPageNum, pageNum) ==
    LET ps == s.pageSize
        b1 == IF count < maxInteriorRecordsPerPage(ps)
              THEN WriteWord(s.buffer[0], KeyOff(count),
                             IF l = s.levels - 1 THEN key ELSE minkey)
              ELSE s.buffer[0]
        c1 == WriteWord(b1, PtrOff(ps, count + 1), pageNum)
    IN SBTREE_INC_COUNT(
           IF l = 0 /\ s.levels > 1
           THEN (IF count > 0 /\ prevPageNum # -1
                 THEN WriteWord(c1, PtrOff(ps, count), prevPageNum)
                 ELSE c1)
           ELSE IF prevPageNum # -1
                THEN WriteWord(WriteWord(b1, PtrOff(ps, count), prevPageNum),
                               PtrOff(ps, count + 1), pageNum)
                ELSE WriteWord(b1, PtrOff(ps, count), pageNum))

\* sbtreeUpdateIndex, lines 305-346: the node on level l has room; the loop ends
AppendChild(s, l, count, minkey, key, prevPageNum, pageNum) ==
    [s |-> SetActivePath(
               writePage([s EXCEPT !.buffer[0] =
                              AppendChildPage(s, l, count, minkey, key,
                                              prevPageNum, pageNum)], 0), l),
     l |-> l, prevPageNum |-> prevPageNum]

\* sbtreeUpdateIndex, lines 274-346: one round of the loop, the node being in slot 0
UpdateNode(s, minkey, key, l, prevPageNum, pageNum, count) ==
    IF NodeFull(s, l, count)
    THEN SplitNode(CloseNode(s, l, count, prevPageNum), minkey, key, l, pageNum)
    ELSE AppendChild(s, l, count, minkey, key, prevPageNum, pageNum)

\* sbtreeUpdateIndex, lines 269-274: the node of level l is read into slot 0
ReadNode(s, minkey, key, l, prevPageNum, pageNum) ==
    UpdateNode(s, minkey, key, l, prevPageNum, pageNum, SBTREE_GET_COUNT(s.buffer[0]))

\* sbtreeUpdateIndex, lines 267-347: the walk up the active path.  Returns the
\* state, the level the loop ended on (-1 when every node was full) and
\* prevPageNum.
UpdateLoop(s, minkey, key, l, prevPageNum, pageNum) ==
    IF l < 0 THEN [s |-> s, l |-> -1, prevPageNum |-> prevPageNum]
    ELSE ReadNode(readPageBuffer(s, s.activePath[l], 0),
                  minkey, key, l, prevPageNum, pageNum)

\* mutant: the new root is built without the root flag
NewRootPageUnflagged(ps, minkey, prevPageNum, sibling) ==
    SBTREE_INC_COUNT(
        WriteWord(WriteWord(WriteWord(ZeroPage(ps), KeyOff(0), minkey),
                            PtrOff(ps, 0), prevPageNum),
                  PtrOff(ps, 1), sibling))

\* sbtreeUpdateIndex, lines 353-364: the page of a new root
NewRootPage(ps, minkey, prevPageNum, sibling) ==
    SBTREE_SET_ROOT(SBTREE_INC_COUNT(
        WriteWord(WriteWord(WriteWord(ZeroPage(ps), KeyOff(0), minkey),
                            PtrOff(ps, 0), prevPageNum),
                  PtrOff(ps, 1), sibling)))

\* mutant: the active path is not shifted when the tree grows
ShiftPathNone(s) == s

\* sbtreeUpdateIndex, lines 366-367: every entry of the active path moves
\* down.  The first entry written is activePath[levels]; the array has
\* MAX_LEVEL entries, so on a tree of MAX_LEVEL levels that write lands behind
\* the array.
ShiftPath(s) ==
    [s EXCEPT !.activePath = [i \in DOMAIN s.activePath |->
                                 IF i > 0 /\ i <= s.levels THEN s.activePath[i - 1]
                                 ELSE s.activePath[i]],
              !.pathOverrun = @ \/ s.levels > MAX_LEVEL - 1]

\* sbtreeUpdateIndex, lines 368-369
AddLevel(wr) == [wr.s EXCEPT !.activePath[0] = wr.pageNum, !.levels = @ + 1]

\* sbtreeUpdateIndex, lines 351-370: every node was full, the tree grows
GrowRoot(s, minkey, prevPageNum) ==
    AddLevel(writePage([ShiftPath(initBufferPage(s, 0)) EXCEPT !.buffer[0] =
                            NewRootPage(s.pageSize, minkey, prevPageNum,
                                        s.activePath[0])], 0))

\* sbtreeUpdateIndex, lines 349-371, r being what the loop returned
EndUpdate(r, minkey) ==
    IF r.l = -1 THEN GrowRoot(r.s, minkey, r.prevPageNum) ELSE r.s

\* sbtreeUpdateIndex
sbtreeUpdateIndex(s, minkey, key, pageNum) ==
    EndUpdate(UpdateLoop(s, minkey, key, s.levels - 1, -1, pageNum), minkey)

\* mutant: the key being inserted is passed as minKey as well
IndexLeafByKey(wr, key) ==
    initBufferPage(sbtreeUpdateIndex(wr.s, key, key, wr.pageNum), 0)

\* sbtreePut, lines 394-402: index the leaf just written, its first key being
\* minkey, and zero the write buffer
IndexLeaf(wr, key) ==
    initBufferPage(sbtreeUpdateIndex(wr.s, ReadWord(wr.s.buffer[0], headerSize, 0),
                                     key, wr.pageNum), 0)

\* mutant: the record is copied but the page's count is not advanced
AddRecordUncounted(s, count, key, data) ==
    [s EXCEPT !.buffer[0] = WriteData(WriteWord(@, RecOff(count), key),
                                      RecOff(count) + keySize, data)]

\* sbtreePut, lines 405-410: the record goes to index count of the write buffer
AddRecord(s, count, key, data) ==
    [s EXCEPT !.buffer[0] =
         SBTREE_INC_COUNT(WriteData(WriteWord(@, RecOff(count), key),
                                    RecOff(count) + keySize, data))]

\* sbtreePut
sbtreePut(s, key, data) ==
    IF SBTREE_GET_COUNT(s.buffer[0]) >= maxRecordsPerPage(s.pageSize)
    THEN AddRecord(IndexLeaf(writePage(s, 0), key), 0, key, data)
    ELSE AddRecord(s, SBTREE_GET_COUNT(s.buffer[0]), key, data)

\* sbtreeFlush, lines 591-601: index the leaf just written; junk is what the
\* four bytes in front of the first record hold when the write buffer is
\* empty (record index -1)
FlushLeaf(wr, junk) ==
    initBufferPage(
        sbtreeUpdateIndex(wr.s,
                          ReadWord(wr.s.buffer[0], headerSize, 0),
                          Inc32(ReadWord(wr.s.buffer[0],
                                         RecOff(SBTREE_GET_COUNT(wr.s.buffer[0]) - 1),
                                         junk)),
                          wr.pageNum), 0)

\* sbtreeFlush
sbtreeFlush(s, junk) == FlushLeaf(writePage(s, 0), junk)

\* sbtreeSearchNode, interior node: lines 453-473
RECURSIVE InteriorSearch(_, _, _, _, _)
InteriorSearch(pg, key, build, first, last) ==
    IF first >= last THEN last
    ELSE LET middle == CDiv(first + last, 2)
             compare == uint32Compare(key, ReadWord(pg, KeyOff(middle), 0), build)
         IN IF compare > 0 THEN InteriorSearch(pg, key, build, middle + 1, last)
            ELSE IF compare = 0 THEN middle + 1
            ELSE InteriorSearch(pg, key, build, first, middle)

\* mutant: a miss in a leaf answers with the nearest record
LeafSearchNearest(pg, key, build, first, last, range) ==
    IF first > last THEN 0 ELSE CDiv(first + last, 2)

\* sbtreeSearchNode, leaf: lines 477-496
RECURSIVE LeafSearch(_, _, _, _, _, _)
LeafSearch(pg, key, build, first, last, range) ==
    LET middle == CDiv(first + last, 2)
    IN IF first > last THEN (IF range = 1 THEN middle ELSE -1)
       ELSE LET compare == uint32Compare(ReadWord(pg, RecOff(middle), 0), key, build)
            IN IF compare < 0 THEN LeafSearch(pg, key, build, middle + 1, last, range)
               ELSE IF compare = 0 THEN middle
               ELSE LeafSearch(pg, key, build, first, middle - 1, range)

\* sbtreeSearchNode
sbtreeSearchNode(s, pg, key, range) ==
    LET count == SBTREE_GET_COUNT(pg)
        mi == maxInteriorRecordsPerPage(s.pageSize)
    IN IF SBTREE_IS_INTERIOR(pg) = 1
       THEN IF count = 0 THEN 0
            ELSE IF count = 1
                 THEN (IF uint32Compare(key, ReadWord(pg, headerSize, 0), s.cmpBuild) < 0
                       THEN 0 ELSE 1)
            ELSE InteriorSearch(pg, key, s.cmpBuild, 0, IF count > mi THEN mi ELSE count)
       ELSE LeafSearch(pg, key, s.cmpBuild, 0, count - 1, range)

\* getChildPageId, line 524: the child pointer read.  childNum is unsigned in
\* the source, so the -1 a leaf search answers with makes an offset far
\* outside the page: the read finds the word in front of the pointers where
\* the offset wraps at 32 bits (s.oob empty) and some other word (the one in
\* s.oob) elsewhere.
ChildPointer(s, pg, childNum) ==
    IF childNum < 0 /\ s.oob # <<>> THEN s.oob[1]
    ELSE ReadWord(pg, PtrOff(s.pageSize, childNum), 0)

\* mutant: the stored pointer is used on the active path as well
getChildPageIdStored(s, pg, pageId, level, childNum) ==
    IF ChildPointer(s, pg, childNum) = 0 /\ childNum = SBTREE_GET_COUNT(pg)
    THEN -1 ELSE ChildPointer(s, pg, childNum)

\* mutant: an empty last child pointer is followed like any other
getChildPageIdNoEmpty(s, pg, pageId, level, childNum) ==
    IF /\ childNum = SBTREE_GET_COUNT(pg)
       /\ level < s.levels - 1
       /\ pageId = s.activePath[level]
    THEN s.activePath[level + 1]
    ELSE ChildPointer(s, pg, childNum)

\* getChildPageId
getChildPageId(s, pg, pageId, level, childNum) ==
    IF /\ childNum = SBTREE_GET_COUNT(pg)
       /\ level < s.levels - 1
       /\ pageId = s.activePath[level]
    THEN s.activePath[level + 1]
    ELSE LET nextId == ChildPointer(s, pg, childNum)
         IN IF nextId = 0 /\ childNum = SBTREE_GET_COUNT(pg) THEN -1 ELSE nextId

RECURSIVE GetDescend(_, _, _, _)

\* sbtreeGet, lines 556-558: stop on a missing child, else go one level down
GetStep(s, key, l, nid) ==
    IF nid = -1 THEN [s |-> s, nextId |-> -1] ELSE GetDescend(s, key, l + 1, nid)

\* sbtreeGet, lines 554-555: the child of the node read, r being what readPage returned
GetLevel(r, key, l, nextId) ==
    GetStep(r.s, key, l,
            getChildPageId(r.s, r.s.buffer[r.slot], nextId, l,
                           sbtreeSearchNode(r.s, r.s.buffer[r.slot], key, 0)))

\* sbtreeGet, lines 549-558: the descent; nextId = -1 when a child is missing
GetDescend(s, key, l, nextId) ==
    IF l >= s.levels THEN [s |-> s, nextId |-> nextId]
    ELSE GetLevel(readPage(s, nextId), key, l, nextId)

\* sbtreeGet, lines 562-568: the answer, idx being the result of the leaf search
GetRecord(r, idx) ==
    IF idx # -1
    THEN [s |-> r.s, ret |-> 0, data |-> ReadData(r.s.buffer[r.slot], RecOff(idx) + keySize)]
    ELSE [s |-> r.s, ret |-> -1, data |-> <<>>]

\* sbtreeGet, lines 561-562: search the leaf read
GetLeaf(r, key) == GetRecord(r, sbtreeSearchNode(r.s, r.s.buffer[r.slot], key, 0))

\* sbtreeGet, lines 556-568, d being what the descent returned
GetEnd(d, key) ==
    IF d.nextId = -1 THEN [s |-> d.s, ret |-> -1, data |-> <<>>]
    ELSE GetLeaf(readPage(d.s, d.nextId), key)

\* sbtreeGet: the state after the call, the value returned and the data copied out
sbtreeGet(s, key) == GetEnd(GetDescend(s, key, 0, s.activePath[0]), key)

RECURSIVE IterDescend(_, _, _, _)

\* sbtreeInitIterator, lines 630-633
IterStep(s, itr, l, childNum, nid) ==
    IF nid = -1 THEN [s |-> s, itr |-> itr, nextId |-> -1]
    ELSE IterDescend(s, [itr EXCEPT !.lastIterRec[l] = childNum], l + 1, nid)

\* sbtreeInitIterator, line 629
IterChild(r, itr, l, nextId, childNum) ==
    IterStep(r.s, itr, l, childNum,
             getChildPageId(r.s, r.s.buffer[r.slot], nextId, l, childNum))

\* sbtreeInitIterator, line 628
IterLevel(r, itr, l, nextId) ==
    IterChild(r, itr, l, nextId, sbtreeSearchNode(r.s, r.s.buffer[r.slot], itr.minKey, 1))

\* sbtreeInitIterator, lines 622-634: the descent, recording the path
IterDescend(s, itr, l, nextId) ==
    IF l >= s.levels THEN [s |-> s, itr |-> itr, nextId |-> nextId]
    ELSE IterLevel(readPage(s, nextId), [itr EXCEPT !.activeIteratorPath[l] = nextId],
                   l, nextId)

\* sbtreeInitIterator, lines 637-641: currentBuffer is the slot the leaf was read into
IterStart(r, itr, l, nextId) ==
    [s |-> r.s,
     itr |-> [itr EXCEPT !.activeIteratorPath[l] = nextId,
                         !.currentBuffer = r.slot,
                         !.lastIterRec[l] =
                             sbtreeSearchNode(r.s, r.s.buffer[r.slot], itr.minKey, 1)]]

\* sbtreeInitIterator, lines 630-641, d being what the descent returned
IterLeaf(d) ==
    IF d.nextId = -1 THEN [s |-> d.s, itr |-> d.itr]
    ELSE IterStart(readPage(d.s, d.nextId), d.itr, d.s.levels, d.nextId)

\* sbtreeInitIterator: currentBuffer stays NULL when the descent meets a missing child
sbtreeInitIterator(s, itr0) ==
    IterLeaf(IterDescend(s, [itr0 EXCEPT !.currentBuffer = NULL], 0, s.activePath[0]))

RECURSIVE IterAscend(_, _, _)

\* sbtreeNext, lines 682-690: the node of level l has been read
AscendNode(r, itr, l) ==
    LET c0 == SBTREE_GET_COUNT(r.s.buffer[r.slot])
        count == IF l = r.s.levels - 1 THEN c0 - 1 ELSE c0
    IN IF itr.lastIterRec[l] < count
       THEN [s |-> r.s, itr |-> [itr EXCEPT !.lastIterRec[l] = @ + 1],
             l |-> l, slot |-> r.slot]
       ELSE IterAscend(r.s, [itr EXCEPT !.lastIterRec[l] = 0], l - 1)

\* sbtreeNext, lines 676-691: walk up the iterator path to a node with a
\* further child; l = -1 when there is none
IterAscend(s, itr, l) ==
    IF l < 0 THEN [s |-> s, itr |-> itr, l |-> -1, slot |-> NULL]
    ELSE AscendNode(readPage(s, itr.activeIteratorPath[l]), itr, l)

RECURSIVE IterRedescend(_, _, _, _)

\* sbtreeNext, line 703
RedescendRead(r, itr, l) == IterRedescend(r.s, itr, l + 1, r.slot)

\* sbtreeNext, lines 699-703
RedescendTo(s, itr, l, slot, nextPage) ==
    IF nextPage = -1 THEN [s |-> s, itr |-> itr, slot |-> slot, ok |-> FALSE]
    ELSE RedescendRead(readPage(s, nextPage),
                       [itr EXCEPT !.activeIteratorPath[l + 1] = nextPage], l)

\* sbtreeNext, lines 695-706: walk down again to the next leaf
IterRedescend(s, itr, l, slot) ==
    IF l >= s.levels THEN [s |-> s, itr |-> itr, slot |-> slot, ok |-> TRUE]
    ELSE RedescendTo(s, itr, l, slot,
                     getChildPageId(s, s.buffer[slot], itr.activeIteratorPath[l],
                                    l, itr.lastIterRec[l]))

RECURSIVE NextLoop(_, _, _, _)

\* sbtreeNext, lines 729-739: hand out the record under the cursor, or skip it
\* (below minKey), or stop (above maxKey)
NextRecord(s, itr, slot, fuel) ==
    LET l == s.levels
        rec == itr.lastIterRec[l]
        key == ReadWord(s.buffer[slot], RecOff(rec), 0)
        itr1 == [itr EXCEPT !.lastIterRec[l] = @ + 1]
    IN IF uint32Compare(key, itr.minKey, s.cmpBuild) < 0
       THEN NextLoop(s, itr1, slot, fuel - 1)
       ELSE IF uint32Compare(key, itr.maxKey, s.cmpBuild) > 0
       THEN [s |-> s, itr |-> itr1, ret |-> 0, key |-> 0, data |-> <<>>]
       ELSE [s |-> s, itr |-> itr1, ret |-> 1, key |-> key,
             data |-> ReadData(s.buffer[slot], RecOff(rec) + keySize)]

\* sbtreeNext, lines 699-707, dn being what the walk down returned
NextFrom(dn, fuel) ==
    IF ~dn.ok THEN [s |-> dn.s, itr |-> dn.itr, ret |-> 0, key |-> 0, data |-> <<>>]
    ELSE NextRecord(dn.s, [dn.itr EXCEPT !.currentBuffer = dn.slot], dn.slot, fuel)

\* sbtreeNext, lines 692-707, up being what the walk up returned
NextLeaf(up, fuel) ==
    IF up.l = -1 THEN [s |-> up.s, itr |-> up.itr, ret |-> 0, key |-> 0, data |-> <<>>]
    ELSE NextFrom(IterRedescend(up.s, up.itr, up.l, up.slot), fuel)

\* sbtreeNext, lines 667-727: move to the next leaf when the cursor has
\* reached the count of the current one; ret = -2 when the fuel runs out
NextLoop(s, itr, slot, fuel) ==
    IF fuel = 0 THEN [s |-> s, itr |-> itr, ret |-> -2, key |-> 0, data |-> <<>>]
    ELSE IF itr.lastIterRec[s.levels] >= SBTREE_GET_COUNT(s.buffer[slot])
    THEN NextLeaf(IterAscend(s, [itr EXCEPT !.lastIterRec[s.levels] = 0], s.levels - 1),
                  fuel)
    ELSE NextRecord(s, itr, slot, fuel)

\* sbtreeNext
sbtreeNext(s, itr) ==
    IF itr.currentBuffer = NULL
    THEN [s |-> s, itr |-> itr, ret |-> 0, key |-> 0, data |-> <<>>]
    ELSE NextLoop(s, itr, itr.currentBuffer, 4 * LoopFuel)

(* ------------------------------------------------------------------ *)
(* Inputs                                                              *)
(* ------------------------------------------------------------------ *)
\* the key of the n-th put: KeyStep apart, from the upper half of the key
\* space once the sequence has jumped there
KeyFor(n, far) == IF far THEN MinInt32 + KeyStep * n ELSE KeyStep * n
DataFor(n) == [d \in 1..(dataSize \div 4) |-> IF d = 1 THEN 100 + n ELSE 0]

NumPut == Len(inserted)
IsFar == NumPut > 0 /\ inserted[NumPut][1] < 0
InsertedKeys == {inserted[i][1] : i \in 1..NumPut}

\* keys looked up by the get operation: keys never inserted (below the
\* smallest, between two, above the largest) and the first and last inserted
LastKey == IF NumPut = 0 THEN 0 ELSE inserted[NumPut][1]
GetArgs == {1, 3, Inc32(LastKey)} \cup {inserted[i][1] : i \in {1, NumPut} \cap (1..NumPut)}
\* ranges iterated: the whole key space [0, 2^32 - 1], the lower keys, and an
\* inner range that starts and ends between two keys
IterArgs == {<<0, -1>>, <<0, 100>>, <<3, 9>>}

NoIterator == [minKey |-> 0, maxKey |-> 0, currentBuffer |-> NULL,
               activeIteratorPath |-> [l \in 0..MAX_LEVEL |-> 0],
               lastIterRec |-> [l \in 0..MAX_LEVEL |-> 0]]

(* ------------------------------------------------------------------ *)
(* The state machine                                                   *)
(* ------------------------------------------------------------------ *)
\* dbbufferInit followed by the rest of sbtreeInit
InitState(ps, np, build) ==
    sbtreeInit([pageSize |-> ps, numPages |-> np, cmpBuild |-> build,
                storage |-> <<>>,
                buffer |-> [i \in 0..(np - 1) |-> ZeroPage(ps)],
                status |-> [i \in 0..(np - 1) |-> BUFFER_EMPTY_ID],
                modified |-> [i \in 0..(np - 1) |-> NOT_MODIFIED_VAL],
                nextPageId |-> 0, nextPageWriteId |-> 0,
                numReads |-> 0, numWrites |-> 0, bufferHits |-> 0,
                lastHit |-> 0, nextBufferPage |-> 1,
                levels |-> 1,
                activePath |-> [l \in 0..(MAX_LEVEL - 1) |-> 0],
                writeLog |-> <<>>,
                fault |-> "none", oob |-> <<>>, ioErrors |-> 0,
                pathOverrun |-> FALSE, readLog |-> <<>>, hitSlot |-> -1,
                aged |-> 0])

\* a second run of the program, on a pool of the minimum size
InitTwin(ps, build) ==
    [s |-> InitState(ps, 2, build), it |-> NoIterator,
     key |-> 0, ret |-> 0, data |-> <<>>]

\* the program variables take the fields of the state record s
Start(s) ==
    /\ storage = s.storage
    /\ buffer = s.buffer
    /\ status = s.status
    /\ modified = s.modified
    /\ nextPageId = s.nextPageId
    /\ nextPageWriteId = s.nextPageWriteId
    /\ numReads = s.numReads
    /\ numWrites = s.numWrites
    /\ bufferHits = s.bufferHits
    /\ lastHit = s.lastHit
    /\ nextBufferPage = s.nextBufferPage
    /\ levels = s.levels
    /\ activePath = s.activePath
    /\ writeLog = s.writeLog
    /\ ioErrors = s.ioErrors
    /\ pathOverrun = s.pathOverrun
    /\ readLog = s.readLog
    /\ hitSlot = s.hitSlot
    /\ aged = s.aged

Init ==
    \E ps \in PageSizes, np \in 2..MaxNumPages, build \in CmpBuilds :
        /\ pageSize = ps
        /\ numPages = np
        /\ cmpBuild = build
        /\ Start(InitState(ps, np, build))
        /\ it = NoIterator
        /\ itState = "none"
        /\ itOut = <<>>
        /\ inserted = <<>>
        /\ nFlush = 0
        /\ flushLog = <<>>
        /\ nReads = 0
        /\ twin = InitTwin(ps, build)
        /\ lastOp = [op |-> "init", key |-> 0, ret |-> 0, data |-> <<>>]

\* the driver inserts and flushes first and queries afterwards
Building == nReads = 0
\* the driver stops at the first storage call that returned an error
Healthy == ioErrors = 0

PutRecord(s, key, data) ==
    /\ Install(sbtreePut(s, key, data))
    /\ inserted' = Append(inserted, <<key, data>>)
    /\ lastOp' = [op |-> "put", key |-> key, ret |-> 0, data |-> data]

Put ==
    /\ Healthy
    /\ Building
    /\ NumPut < MaxPuts
    /\ \E far \in BOOLEAN :
        /\ IsFar => far
        /\ (far /\ ~IsFar) => (1 <= NumPut /\ NumPut <= MaxJumpAt)
        /\ PutRecord(Cur, KeyFor(NumPut + 1, far), DataFor(NumPut + 1))
    /\ UNCHANGED <<it, itState, itOut, nFlush, flushLog, nReads, twin>>

Flush ==
    /\ Healthy
    /\ Building
    /\ nFlush < MaxFlushes
    /\ \E junk \in JunkWords : Install(sbtreeFlush(Cur, junk))
    /\ nFlush' = nFlush + 1
    /\ flushLog' = Append(flushLog, NumPut)
    /\ lastOp' = [op |-> "flush", key |-> 0, ret |-> 0, data |-> <<>>]
    /\ UNCHANGED <<it, itState, itOut, inserted, nReads, twin>>

GetReturns(r, key) ==
    /\ Install(r.s)
    /\ lastOp' = [op |-> "get", key |-> key, ret |-> r.ret, data |-> r.data]

Get ==
    /\ Healthy
    /\ nReads < MaxReads
    /\ \E key \in GetArgs : GetReturns(sbtreeGet(Cur, key), key)
    /\ nReads' = nReads + 1
    /\ UNCHANGED <<it, itState, itOut, inserted, nFlush, flushLog, twin>>

InitIteratorReturns(r) ==
    /\ Install(r.s)
    /\ it' = r.itr
    /\ lastOp' = [op |-> "iter", key |-> r.itr.minKey, ret |-> 0, data |-> <<>>]

InitIterator ==
    /\ Healthy
    /\ nReads < MaxReads
    /\ \E rg \in IterArgs :
        InitIteratorReturns(
            sbtreeInitIterator(Cur, [NoIterator EXCEPT !.minKey = rg[1], !.maxKey = rg[2]]))
    /\ itState' = "open"
    /\ itOut' = <<>>
    /\ nReads' = nReads + 1
    /\ UNCHANGED <<inserted, nFlush, flushLog, twin>>

NextReturns(r) ==
    /\ Install(r.s)
    /\ it' = r.itr
    /\ itState' = IF r.ret = 1 THEN "open" ELSE "ended"
    /\ itOut' = IF r.ret = 1 THEN Append(itOut, <<r.key, r.data>>) ELSE itOut
    /\ lastOp' = [op |-> "next", key |-> r.key, ret |-> r.ret, data |-> r.data]

Next ==
    /\ Healthy
    /\ itState = "open"
    /\ NextReturns(sbtreeNext(Cur, it))
    /\ UNCHANGED <<inserted, nFlush, flushLog, nReads, twin>>

Step == Put \/ Flush \/ Get \/ InitIterator \/ Next

Spec == Init /\ [][Step]_vars

(* ------------------------------------------------------------------ *)
(* The same operations on a device that fails                          *)
(* ------------------------------------------------------------------ *)
\* the kinds of back-end call that can fail
FaultKinds == {"read", "write"}
\* what a child-pointer read outside the page finds
OobReads == {<<>>} \cup {<<w>> : w \in JunkWords}
\* the machine state with the device failing calls of kind f
Failing(f, o) == [Cur EXCEPT !.fault = f, !.oob = o]

\* sbtreePut during which a storage call fails
PutFault ==
    /\ Healthy
    /\ Building
    /\ NumPut < MaxPuts
    /\ \E f \in FaultKinds, far \in BOOLEAN :
        /\ IsFar => far
        /\ (far /\ ~IsFar) => (1 <= NumPut /\ NumPut <= MaxJumpAt)
        /\ PutRecord(Failing(f, <<>>), KeyFor(NumPut + 1, far), DataFor(NumPut + 1))
    /\ ioErrors' > 0
    /\ UNCHANGED <<it, itState, itOut, nFlush, flushLog, nReads, twin>>

\* sbtreeFlush during which a storage call fails
FlushFault ==
    /\ Healthy
    /\ Building
    /\ nFlush < MaxFlushes
    /\ \E f \in FaultKinds, junk \in JunkWords : Install(sbtreeFlush(Failing(f, <<>>), junk))
    /\ ioErrors' > 0
    /\ nFlush' = nFlush + 1
    /\ flushLog' = Append(flushLog, NumPut)
    /\ lastOp' = [op |-> "flush", key |-> 0, ret |-> 0, data |-> <<>>]
    /\ UNCHANGED <<it, itState, itOut, inserted, nReads, twin>>

\* sbtreeGet during which a storage read fails
GetFault ==
    /\ Healthy
    /\ nReads < MaxReads
    /\ \E key \in GetArgs, o \in OobReads :
        GetReturns(sbtreeGet(Failing("read", o), key), key)
    /\ ioErrors' > 0
    /\ nReads' = nReads + 1
    /\ UNCHANGED <<it, itState, itOut, inserted, nFlush, flushLog, twin>>

(* ------------------------------------------------------------------ *)
(* Deep trees: small pages and puts only                               *)
(* ------------------------------------------------------------------ *)
InitDeep ==
    \E ps \in DeepPageSizes, np \in 2..MaxNumPages, build \in CmpBuilds :
        /\ pageSize = ps
        /\ numPages = np
        /\ cmpBuild = build
        /\ Start(InitState(ps, np, build))
        /\ it = NoIterator
        /\ itState = "none"
        /\ itOut = <<>>
        /\ inserted = <<>>
        /\ nFlush = 0
        /\ flushLog = <<>>
        /\ nReads = 0
        /\ twin = InitTwin(ps, build)
        /\ lastOp = [op |-> "init", key |-> 0, ret |-> 0, data |-> <<>>]

\* sbtreePut of the next key; what the program does after a write behind
\* activePath is not defined, the run ends there
PutDeep ==
    /\ ~pathOverrun
    /\ NumPut < MaxDeepPuts
    /\ PutRecord(Cur, KeyFor(NumPut + 1, FALSE), DataFor(NumPut + 1))
    /\ UNCHANGED <<it, itState, itOut, nFlush, flushLog, nReads, twin>>

SpecDeep == InitDeep /\ [][PutDeep]_vars

(* ------------------------------------------------------------------ *)
(* Two pools: every operation is applied to the program and to its     *)
(* twin, whose pool has two slots                                      *)
(* ------------------------------------------------------------------ *)
\* the twin's state at the start of an operation
TwinState == [twin.s EXCEPT !.readLog = <<>>]

\* the twin after an operation that left it in state s and returned ret
TwinReturns(s, itr, key, ret, data) ==
    twin' = [s |-> s, it |-> itr, key |-> key, ret |-> ret, data |-> data]

TwinGetReturns(r, key) == TwinReturns(r.s, twin.it, key, r.ret, r.data)
TwinInitIteratorReturns(r) == TwinReturns(r.s, r.itr, r.itr.minKey, 0, <<>>)
TwinNextReturns(r) == TwinReturns(r.s, r.itr, r.key, r.ret, r.data)

InitPool ==
    /\ Init
    /\ numPages >= 3

PutBoth(key, data) ==
    /\ PutRecord(Cur, key, data)
    /\ TwinReturns(sbtreePut(TwinState, key, data), twin.it, key, 0, data)

PutPool ==
    /\ Building
    /\ NumPut < MaxPoolPuts
    /\ PutBoth(KeyFor(NumPut + 1, FALSE), DataFor(NumPut + 1))
    /\ UNCHANGED <<it, itState, itOut, nFlush, flushLog, nReads>>

FlushPool ==
    /\ Building
    /\ nFlush < MaxFlushes
    /\ \E junk \in JunkWords :
        /\ Install(sbtreeFlush(Cur, junk))
        /\ TwinReturns(sbtreeFlush(TwinState, junk), twin.it, 0, 0, <<>>)
    /\ nFlush' = nFlush + 1
    /\ flushLog' = Append(flushLog, NumPut)
    /\ lastOp' = [op |-> "flush", key |-> 0, ret |-> 0, data |-> <<>>]
    /\ UNCHANGED <<it, itState, itOut, inserted, nReads>>

GetPool ==
    /\ nReads < MaxPoolReads
    /\ \E key \in GetArgs :
        /\ GetReturns(sbtreeGet(Cur, key), key)
        /\ TwinGetReturns(sbtreeGet(TwinState, key), key)
    /\ nReads' = nReads + 1
    /\ UNCHANGED <<it, itState, itOut, inserted, nFlush, flushLog>>

InitIteratorPool ==
    /\ nReads < MaxPoolReads
    /\ \E rg \in IterArgs :
        /\ InitIteratorReturns(
               sbtreeInitIterator(Cur, [NoIterator EXCEPT !.minKey = rg[1],
                                                          !.maxKey = rg[2]]))
        /\ TwinInitIteratorReturns(
               sbtreeInitIterator(TwinState, [NoIterator EXCEPT !.minKey = rg[1],
                                                                !.maxKey = rg[2]]))
    /\ itState' = "open"
    /\ itOut' = <<>>
    /\ nReads' = nReads + 1
    /\ UNCHANGED <<inserted, nFlush, flushLog>>

NextPool ==
    /\ itState = "open"
    /\ NextReturns(sbtreeNext(Cur, it))
    /\ TwinNextReturns(sbtreeNext(TwinState, twin.it))
    /\ UNCHANGED <<inserted, nFlush, flushLog, nReads>>

StepPool == PutPool \/ FlushPool \/ GetPool \/ InitIteratorPool \/ NextPool

SpecPool == InitPool /\ [][StepPool]_vars

(* ------------------------------------------------------------------ *)
(* The buffer on its own: a client that calls readPage and             *)
(* dbbufferSetModified on a pool whose storage already holds pages     *)
(* ------------------------------------------------------------------ *)
\* the pool after a client has written base more pages through slot 0, each
\* one zeroed by initBufferPage and then passed to writePage, without a read
\* (the page numbers of those writes are left out of writeLog)
Aged(s, base) ==
    [s EXCEPT !.aged = base,
              !.nextPageWriteId = @ + base,
              !.nextPageId = @ + base,
              !.numWrites = @ + base,
              !.status[0] = s.nextPageWriteId + base - 1,
              !.buffer[0] = [ZeroPage(s.pageSize) EXCEPT !.id = s.nextPageId + base - 1]]

InitAged(base, pools, builds) ==
    \E ps \in DeepPageSizes, np \in pools, build \in builds :
        /\ pageSize = ps
        /\ numPages = np
        /\ cmpBuild = build
        /\ Start(Aged(InitState(ps, np, build), base))
        /\ it = NoIterator
        /\ itState = "none"
        /\ itOut = <<>>
        /\ inserted = <<>>
        /\ nFlush = 0
        /\ flushLog = <<>>
        /\ nReads = 0
        /\ twin = InitTwin(ps, build)
        /\ lastOp = [op |-> "init", key |-> 0, ret |-> 0, data |-> <<>>]

InitBuffer == InitAged(SmallBase, 2..MaxNumPages, CmpBuilds)
\* the same client after 2^16 - 2 pages, on the largest pool
InitWide == InitAged(WideBase, {MaxNumPages}, {"wrap"})

\* the pages the client asks for: the root and the pages written last
ReadablePages ==
    {activePath[0]} \cup
    {p \in (nextPageWriteId - MaxBufPages)..(nextPageWriteId - 1) : p >= 0}

\* the slots the client has marked so far: every mark is written back once
MarksLeft == Len(inserted) < MaxBufMarks

ReadPageReturns(r, pageNum) ==
    /\ Install(r.s)
    /\ lastOp' = [op |-> "readPage", key |-> pageNum, ret |-> r.slot, data |-> <<>>]

\* readPage of a written page
ReadPage ==
    /\ nReads < MaxBufReads
    /\ \E pageNum \in ReadablePages : ReadPageReturns(readPage(Cur, pageNum), pageNum)
    /\ nReads' = nReads + 1
    /\ UNCHANGED <<it, itState, itOut, inserted, nFlush, flushLog, twin>>

\* dbbufferSetModified, lines 228-232
dbbufferSetModified(s, bufnum, level) == [s EXCEPT !.modified[bufnum] = level]

\* dbbufferSetModified on a page that readPage returned, level being the
\* active-path level of the node it holds
SetModified ==
    /\ MarksLeft
    /\ \E bufnum \in 1..(numPages - 1), level \in 0..1 :
        /\ status[bufnum] # BUFFER_EMPTY_ID
        /\ modified[bufnum] = NOT_MODIFIED_VAL
        /\ Install(dbbufferSetModified(Cur, bufnum, level))
        /\ inserted' = Append(inserted, <<bufnum, <<level>>>>)
        /\ lastOp' = [op |-> "setModified", key |-> bufnum, ret |-> level, data |-> <<>>]
    /\ UNCHANGED <<it, itState, itOut, nFlush, flushLog, nReads, twin>>

StepBuffer == ReadPage \/ SetModified

SpecBuffer == InitBuffer /\ [][StepBuffer]_vars
SpecWide == InitWide /\ [][ReadPage]_vars

StepFault == Step \/ PutFault \/ FlushFault \/ GetFault

SpecFault == Init /\ [][StepFault]_vars

(* ------------------------------------------------------------------ *)
(* Expected answers, from the history of the puts                      *)
(* ------------------------------------------------------------------ *)
ULeq(a, b) == ~ULess(b, a)
DataOf(k) == inserted[CHOOSE i \in 1..NumPut : inserted[i][1] = k][2]
InRange(r, a, b) == ULeq(a, r[1]) /\ ULeq(r[1], b)
\* the inserted records with a <= key <= b, in ascending key order
Expected(a, b) == SelectSeq(inserted, LAMBDA r : InRange(r, a, b))
\* the number of records still in the write buffer
Unwritten == SBTREE_GET_COUNT(buffer[0])
\* keys whose record has been written out in a leaf page
WrittenKeys == {inserted[i][1] : i \in 1..(NumPut - Unwritten)}
\* puts, then exactly one flush, and no put after it
FlushedOnce == NumPut >= 1 /\ nFlush = 1 /\ Unwritten = 0
GotInserted == lastOp.op = "get" /\ lastOp.key \in InsertedKeys
Found == lastOp.ret = 0 /\ lastOp.data = DataOf(lastOp.key)

(* ------------------------------------------------------------------ *)
(* Properties                                                          *)
(* ------------------------------------------------------------------ *)
\* C1: round trip -- after any puts, with or without flushes, a get of an
\* inserted key returns 0 and the data inserted with it
C1_RoundTrip == GotInserted => Found

\* C2: after n >= 1 puts and one flush, a get of each inserted key returns 0
\* and the data inserted with it
C2_GetAfterFlush == (GotInserted /\ FlushedOnce) => Found

\* C3: range completeness -- an iterator over [a,b] has returned, when
\* sbtreeNext returns 0, exactly the records inserted so far with a <= key <= b,
\* in ascending order
C3_RangeComplete == itState = "ended" => itOut = Expected(it.minKey, it.maxKey)

\* C4: after puts and one flush an iterator over [a,b] returns exactly the
\* inserted records with a <= key <= b, each once, in ascending order
C4_RangeAfterFlush ==
    (itState = "ended" /\ FlushedOnce) => itOut = Expected(it.minKey, it.maxKey)

\* C5: a get of a key that was never inserted returns -1, never 0
C5_AbsentKeyNotFound ==
    (lastOp.op = "get" /\ lastOp.key \notin InsertedKeys) => lastOp.ret = -1

\* a get of a key above the largest inserted one has answered, on a tree of
\* two or more levels
C5_Witness ==
    /\ lastOp.op = "get"
    /\ NumPut >= 3
    /\ ULess(LastKey, lastOp.key)
    /\ levels >= 2
    /\ lastOp.ret = -1

\* C6: without any flush, a get of a key whose record has been written out in
\* a leaf page returns 0 and the data inserted with it
C6_WrittenKeyFound ==
    (lastOp.op = "get" /\ nFlush = 0 /\ lastOp.key \in WrittenKeys) => Found

\* C7: the page numbers returned by writePage are 0, 1, 2, ... in call order
C7_PhysicalIdsSequential == \A i \in 1..Len(writeLog) : writeLog[i] = i - 1

\* init, puts that split and grow the tree, and a flush have all written pages
C7_Witness == Len(writeLog) >= 8 /\ nFlush >= 1 /\ levels >= 2

\* C8: no page is rewritten in place -- a step leaves every stored page as it
\* was and only appends
C8_NoRewriteInPlace ==
    [][/\ Len(storage') >= Len(storage)
       /\ \A p \in 1..Len(storage) : storage'[p] = storage[p]]_vars

\* index nodes have been copied to new pages several times over
C8_Witness == Len(storage) >= 10 /\ levels >= 2 /\ activePath[0] >= 8

\* C9: the logical id stamped on a written page exceeds the logical id of
\* every page written before it
C9_LogicalIdsIncrease ==
    \A i, j \in 1..Len(writeLog) :
        i < j => storage[writeLog[i] + 1].id < storage[writeLog[j] + 1].id

\* several pages written, the last one carrying the largest logical id
C9_Witness ==
    /\ Len(writeLog) >= 4
    /\ storage[writeLog[Len(writeLog)] + 1].id = nextPageId - 1
    /\ nextPageId >= 4

\* C10: idempotent flush -- a flush that directly follows a flush writes no
\* page: nextPageWriteId and numWrites are unchanged by it
C10_SecondFlushWritesNothing ==
    [][(lastOp.op = "flush" /\ nFlush' = nFlush + 1)
        => (nextPageWriteId' = nextPageWriteId /\ numWrites' = numWrites)]_vars

(* ------------------------------------------------------------------ *)
(* Shape of the stored pages                                           *)
(* ------------------------------------------------------------------ *)
\* the number of separator keys an interior page holds
NumSeparators(pg) ==
    IF SBTREE_GET_COUNT(pg) < maxInteriorRecordsPerPage(pageSize)
    THEN SBTREE_GET_COUNT(pg) ELSE maxInteriorRecordsPerPage(pageSize)
SeparatorsIncrease(pg) ==
    \A i, j \in 0..(NumSeparators(pg) - 1) :
        i < j => ULess(ReadWord(pg, KeyOff(i), 0), ReadWord(pg, KeyOff(j), 0))
InteriorPages == {p \in 1..Len(storage) : SBTREE_IS_INTERIOR(storage[p]) = 1}
\* puts, a flush, further puts, and a final flush
PutsFlushPutsFlush ==
    /\ Len(flushLog) = 2
    /\ 1 <= flushLog[1]
    /\ flushLog[1] < flushLog[2]
    /\ flushLog[2] = NumPut

\* C11: after puts, a flush, further puts of greater keys and a final flush,
\* the separator keys of every interior page are strictly increasing and a
\* get of any inserted key returns 0 and the data inserted with it
C11_PutsAfterFlush ==
    PutsFlushPutsFlush =>
        /\ \A p \in InteriorPages : SeparatorsIncrease(storage[p])
        /\ GotInserted => Found

\* the role the count field gives a page: 2 root, 1 interior, 0 leaf
Role(pg) == SBTREE_IS_ROOT(pg) + SBTREE_IS_INTERIOR(pg)
\* the stored page a level of the active path names
PathPage(i) == storage[activePath[i] + 1]
PathReadable ==
    \A i \in 0..(levels - 1) : 0 <= activePath[i] /\ activePath[i] < Len(storage)

\* C12 (as stated): after any put every activePath[i], 0 <= i < levels, names
\* a written page and the roles of those pages decrease strictly with depth
C12_PathRolesStrictlyDecrease ==
    lastOp.op = "put" =>
        /\ PathReadable
        /\ \A i, j \in 0..(levels - 1) : i < j => Role(PathPage(i)) > Role(PathPage(j))

\* C12 (amended): after any put every activePath[i], 0 <= i < levels, names a
\* written page, the page at index 0 carries the root flag and the page at
\* every deeper index is an interior page without the root flag
C12_PathRootThenInterior ==
    lastOp.op = "put" =>
        /\ PathReadable
        /\ Role(PathPage(0)) = 2
        /\ \A i \in 1..(levels - 1) : Role(PathPage(i)) = 1

\* a put has grown the tree to three levels
C12_Witness == lastOp.op = "put" /\ levels >= 3 /\ Role(PathPage(2)) = 1

\* the children of the stored interior page pid on level l, the last child
\* of an active-path node being resolved through the active path as
\* getChildPageId does; a node just above the leaves has one pointer per
\* written leaf, a node further up one more pointer than separators
Children(pid, l) ==
    LET pg == storage[pid + 1]
        last == IF l = levels - 1 THEN SBTREE_GET_COUNT(pg) - 1 ELSE SBTREE_GET_COUNT(pg)
    IN {getChildPageId(Cur, pg, pid, l, c) : c \in 0..last} \cap (0..(Len(storage) - 1))
\* the pages reachable from activePath[0] on level l (leaves on level levels)
RECURSIVE ReachableAt(_)
ReachableAt(l) ==
    IF l = 0 THEN {activePath[0]}
    ELSE UNION {Children(pid, l - 1) : pid \in ReachableAt(l - 1)}
Reachable == UNION {ReachableAt(l) : l \in 0..levels}

\* C13: among the pages reachable from activePath[0], exactly the page
\* activePath[0] carries the root flag
C13_OnlyRootMarkedRoot ==
    \A pid \in Reachable : (SBTREE_IS_ROOT(storage[pid + 1]) = 1) <=> (pid = activePath[0])

\* the record keys of a stored leaf are strictly increasing
LeafKeysIncrease(pg) ==
    \A i, j \in 0..(SBTREE_GET_COUNT(pg) - 1) :
        i < j => ULess(ReadWord(pg, RecOff(i), 0), ReadWord(pg, RecOff(j), 0))

\* C14: in every page written to storage the keys of a leaf are strictly
\* increasing and the separator keys of an interior node are strictly
\* increasing, after any puts of increasing keys and any flushes
C14_KeysIncreaseInPages ==
    \A p \in 1..Len(storage) :
        IF SBTREE_IS_INTERIOR(storage[p]) = 1
        THEN SeparatorsIncrease(storage[p])
        ELSE LeafKeysIncrease(storage[p])

\* C15: a get, put or flush during which a storage call returned an error
\* returns -1
C15_StorageFailureSurfaced ==
    (ioErrors > 0 /\ lastOp.op \in {"get", "put", "flush"}) => lastOp.ret = -1

\* C16: levels never exceeds MAX_LEVEL and activePath is never written at an
\* index outside its bounds
C16_LevelsWithinCapacity == levels <= MAX_LEVEL /\ ~pathOverrun

\* the readPage calls of the last operation that missed on a page other than
\* the root, in a pool of three slots or more
NonRootMiss(r) == numPages >= 3 /\ ~r.hit /\ r.pageNum # r.pre.root

LoggedReads == {readLog[n] : n \in DOMAIN readLog}

\* C17: with numPages >= 3 a readPage miss for a page other than the current
\* root is loaded into one of the slots 2 .. numPages-1, never into slot 1,
\* and leaves the page held in slot 1 where it is
C17_RootSlotPinned ==
    \A r \in LoggedReads :
        NonRootMiss(r) => /\ r.slot \in 2..(numPages - 1)
                          /\ r.post.status[1] = r.pre.status[1]
                          /\ r.post.buffer[1] = r.pre.buffer[1]

\* the last operation returned the same in the program and in its twin
SameAsTwin ==
    /\ lastOp.ret = twin.ret
    /\ (lastOp.op = "get" /\ lastOp.ret = 0) => lastOp.data = twin.data
    /\ (lastOp.op = "next" /\ lastOp.ret = 1) =>
           (lastOp.key = twin.key /\ lastOp.data = twin.data)

\* C18: the pool is transparent -- after the same puts, flushes, gets and
\* iterator calls, sbtreeGet and sbtreeNext return the same on a pool of two
\* slots as on a larger pool
C18_PoolTransparent == lastOp.op \in {"get", "next"} => SameAsTwin

\* the put just made found the write buffer full and wrote it out as a leaf;
\* no flush has written a partial leaf
PageFill ==
    /\ lastOp.op = "put"
    /\ nFlush = 0
    /\ NumPut > 1
    /\ (NumPut - 1) % maxRecordsPerPage(pageSize) = 0
\* the leaves written so far, i / maxRecordsPerPage for the i-th key from 0
LeavesWritten == (NumPut - 1) \div maxRecordsPerPage(pageSize)
\* the times the tree has grown by a level
GrowthEvents == levels - 1

\* C19 as stated: after each put that fills a page the write counter is the
\* number of leaves written, plus one, plus the number of depth-growth events
C19_OneWritePerPageFill ==
    PageFill => numWrites = LeavesWritten + 1 + GrowthEvents

\* C19: after each put that fills a page the write counter is at least twice
\* the number of leaves written, plus one, plus the number of depth-growth
\* events -- every page fill writes the leaf and at least one index node --
\* and exactly twice the number of leaves plus one while the tree has one level
C19_TwoWritesPerPageFill ==
    PageFill => /\ numWrites >= 2 * LeavesWritten + 1 + GrowthEvents
                /\ (levels = 1 => numWrites = 2 * LeavesWritten + 1)

C19_Witness ==
    /\ PageFill
    /\ maxInteriorRecordsPerPage(pageSize) = 3
    /\ LeavesWritten >= 4
    /\ levels >= 2

\* the readPage calls of the last operation that were hits
LoggedHits == {r \in LoggedReads : r.hit}

RoundRobinMiss(r) ==
    /\ NonRootMiss(r)
    /\ numPages >= 4
    /\ \A i \in 2..(numPages - 1) : r.pre.status[i] # BUFFER_EMPTY_ID

\* C21: round-robin eviction ends with a slot of the pool and never chooses
\* the slot that produced the most recent buffer hit, whatever the page ids
C21_RoundRobinSkipsLastHit ==
    \A r \in LoggedReads :
        RoundRobinMiss(r) => /\ r.slot \in 1..(numPages - 1)
                             /\ r.slot # r.pre.hitSlot

\* the operation was one readPage call that chose its slot by round robin
RoundRobinCall(log) == Len(log) = 1 /\ RoundRobinMiss(log[1])
\* the slot after slot a in the order 2, 3, ..., numPages-1, 2, ...
SlotAfter(a) == IF a >= numPages - 1 THEN 2 ELSE a + 1

\* C22: of two readPage calls in a row that both choose by round robin, with
\* no buffer hit in between, the second takes the slot after the one the
\* first took, in the order 2, 3, ..., numPages-1 and back to 2; so it never
\* takes the same slot
C22_RoundRobinOrder ==
    [][(RoundRobinCall(readLog) /\ RoundRobinCall(readLog'))
          => readLog'[1].slot = SlotAfter(readLog[1].slot)]_vars

\* the page the storage st holds for page number p
StoredPage(st, p) ==
    IF IsAged(Cur, p) THEN AgedPage(Cur, p) ELSE st[StoredAt(Cur, p) + 1]

LoggedMisses == {r \in LoggedReads : ~r.hit}
Dirty(r) == r.pre.modified[r.slot] # NOT_MODIFIED_VAL

\* a miss on a slot marked modified: the slot's contents are appended to the
\* storage, stamped with the next logical id, and the level's active-path
\* entry takes the page number of that write
WrittenBack(r) ==
    /\ r.post.numWrites = r.pre.numWrites + 1
    /\ r.post.nextPageWriteId = r.pre.nextPageWriteId + 1
    /\ Len(r.post.storage) = Len(r.pre.storage) + 1
    /\ \A n \in 1..Len(r.pre.storage) : r.post.storage[n] = r.pre.storage[n]
    /\ StoredPage(r.post.storage, r.pre.nextPageWriteId).cnt = r.pre.buffer[r.slot].cnt
    /\ StoredPage(r.post.storage, r.pre.nextPageWriteId).w = r.pre.buffer[r.slot].w
    /\ r.post.activePath =
           [r.pre.activePath EXCEPT ![r.pre.modified[r.slot]] = r.pre.nextPageWriteId]

\* a miss on a slot not marked modified: nothing is written
NotWritten(r) ==
    /\ r.post.numWrites = r.pre.numWrites
    /\ r.post.nextPageWriteId = r.pre.nextPageWriteId
    /\ r.post.storage = r.pre.storage
    /\ r.post.activePath = r.pre.activePath

\* C23: a readPage miss whose slot is marked modified with a level writes the
\* slot's contents out through writePage before the slot is reused and sets
\* activePath[level] to the page number written; a miss on a clean slot
\* writes nothing; either way the slot then holds the page asked for, with
\* status = pageNum and modified = NOT_MODIFIED
C23_DirtyWriteBack ==
    \A r \in LoggedMisses :
        /\ IF Dirty(r) THEN WrittenBack(r) ELSE NotWritten(r)
        /\ r.post.status[r.slot] = r.pageNum
        /\ r.post.modified[r.slot] = NOT_MODIFIED_VAL
        /\ r.post.buffer[r.slot] = StoredPage(r.post.storage, r.pageNum)

\* the last readPage call missed, chose a slot marked modified for level 1
\* and wrote it out
C23_Witness ==
    \E r \in LoggedMisses :
        Dirty(r) /\ r.pre.modified[r.slot] = 1 /\ activePath[1] = r.pre.nextPageWriteId

PoolSlots == 1..(numPages - 1)
Cached(i) == status[i] # BUFFER_EMPTY_ID /\ modified[i] = NOT_MODIFIED_VAL
Stored(p) == p >= 0 /\ p < aged + Len(storage)

\* C24: every pool slot of [1, numPages) that has a page number and is not
\* marked modified holds exactly the stored bytes of that page, and no two
\* pool slots have the same page number
C24_CacheCoherent ==
    /\ \A i \in PoolSlots :
           Cached(i) => Stored(status[i]) /\ buffer[i] = StoredPage(storage, status[i])
    /\ \A i, j \in PoolSlots :
           i # j /\ status[i] # BUFFER_EMPTY_ID => status[i] # status[j]

\* a step that is one sbtreePut call
PutStep == lastOp'.op = "put" /\ Len(inserted') = Len(inserted) + 1
WriteBufferFull == SBTREE_GET_COUNT(buffer[0]) >= maxRecordsPerPage(pageSize)

\* the write buffer after the step holds the record of the put at index count
RecordStoredAt(count) ==
    /\ ReadWord(buffer'[0], RecOff(count), 0) = lastOp'.key
    /\ ReadData(buffer'[0], RecOff(count) + keySize) = lastOp'.data
    /\ SBTREE_GET_COUNT(buffer'[0]) = count + 1
    /\ \A n \in 0..(count - 1) :
           /\ ReadWord(buffer'[0], RecOff(n), 0) = ReadWord(buffer[0], RecOff(n), 0)
           /\ ReadData(buffer'[0], RecOff(n) + keySize) = ReadData(buffer[0], RecOff(n) + keySize)

\* C25: sbtreePut into a write buffer that is not full returns 0, stores the
\* record at index count, adds one to count and writes no page:
\* nextPageId, nextPageWriteId, numWrites, the storage, activePath and
\* levels are unchanged
C25_PutBuffered ==
    [][(PutStep /\ ~WriteBufferFull) =>
          /\ lastOp'.ret = 0
          /\ RecordStoredAt(SBTREE_GET_COUNT(buffer[0]))
          /\ UNCHANGED <<nextPageId, nextPageWriteId, numWrites, storage,
                         activePath, levels, writeLog>>]_vars

\* a put has added a second record to a write buffer, after a leaf was written
C25_Witness ==
    /\ lastOp.op = "put"
    /\ SBTREE_GET_COUNT(buffer[0]) = 2
    /\ buffer[0].cnt = 2
    /\ NumPut > 2
    /\ writeLog # <<>>

\* the page numbers writePage returned during the step, in call order
WrittenNow == SubSeq(writeLog', Len(writeLog) + 1, Len(writeLog'))
\* the separator keys an interior page holds
SeparatorsOf(pg) ==
    {ReadWord(pg, KeyOff(n), 0) :
        n \in 0..(Min({SBTREE_GET_COUNT(pg), maxInteriorRecordsPerPage(pageSize)}) - 1)}
\* the separators of the active path before the step
PathSeparators ==
    UNION {SeparatorsOf(storage[activePath[l] + 1]) : l \in 0..(levels - 1)}
FirstKey(pg) == ReadWord(pg, headerSize, 0)

\* the leaf is the first page the call writes and the only leaf it writes
LeafWrittenFirst(new) ==
    /\ Len(new) >= 2
    /\ new[1] = nextPageWriteId
    /\ storage'[new[1] + 1] = [buffer[0] EXCEPT !.id = nextPageId]
    /\ SBTREE_IS_INTERIOR(storage'[new[1] + 1]) = 0
    /\ \A k \in 2..Len(new) :
           new[k] > new[1] /\ SBTREE_IS_INTERIOR(storage'[new[k] + 1]) = 1

\* the index was updated with the key of the put as separator and the first
\* key of the leaf as minKey: the lowest active node ends with the leaf as
\* its last child under the new key, a new root starts with the leaf's
\* first key, and no other key enters an index page
IndexedAs(new, bottom, minKey, key) ==
    /\ ReadWord(bottom, PtrOff(pageSize, SBTREE_GET_COUNT(bottom) - 1), 0) = new[1]
    /\ SBTREE_GET_COUNT(bottom) <= maxInteriorRecordsPerPage(pageSize) =>
           ReadWord(bottom, KeyOff(SBTREE_GET_COUNT(bottom) - 1), 0) = key
    /\ levels' > levels => FirstKey(storage'[activePath'[0] + 1]) = minKey
    /\ \A k \in 2..Len(new) :
           SeparatorsOf(storage'[new[k] + 1]) \subseteq PathSeparators \cup {minKey, key}

\* C26: sbtreePut on a full write buffer writes the leaf exactly once and
\* before every index page of the call (its page number is below theirs),
\* updates the index with the leaf's first key as minKey and the new key as
\* separator, and leaves a fresh write buffer holding only the new record
C26_PutFull ==
    [][(PutStep /\ WriteBufferFull) =>
          /\ lastOp'.ret = 0
          /\ LeafWrittenFirst(WrittenNow)
          /\ IndexedAs(WrittenNow, storage'[activePath'[levels' - 1] + 1],
                       FirstKey(buffer[0]), lastOp'.key)
          /\ buffer'[0] = AddRecord(initBufferPage(Cur, 0), 0,
                                    lastOp'.key, lastOp'.data).buffer[0]
          /\ buffer'[0].cnt = 1]_vars

\* a put on a full write buffer has written a leaf, a new lowest node and a
\* new root
C26_Witness ==
    /\ lastOp.op = "put"
    /\ buffer[0].cnt = 1
    /\ levels = 3
    /\ Len(writeLog) >= 3
    /\ writeLog[Len(writeLog)] = activePath[0]

maxInterior == maxInteriorRecordsPerPage(pageSize)
\* words of a page behind the last child pointer
SlackWords == (2 * maxInterior + 2)..NumWords(pageSize)
\* the count of the active node of level l
ActiveCount(l) == SBTREE_GET_COUNT(StoredPage(storage, activePath[l]))

\* C27: the fan-out bound.  The node sbtreeUpdateIndex finds on level l of
\* the active path has a count of at most maxInterior above the lowest level
\* and at most maxInterior + 1 on the lowest level, so the stores it makes
\* (key index count only when count < maxInterior; pointer index count or
\* count + 1 of a node that is not full, pointer index count of a full node
\* above the lowest level) stay below key index maxInterior and at or below
\* pointer index maxInterior; every written interior page has a count of at
\* most maxInterior + 1, nothing stored behind pointer maxInterior, and
\* pointer maxInterior ends inside the page
C27_FanOutBound ==
    /\ \A l \in 0..(levels - 1) :
           ActiveCount(l) <= (IF l = levels - 1 THEN maxInterior + 1 ELSE maxInterior)
    /\ \A l \in 0..(levels - 2) : \A pid \in ReachableAt(l) :
           SBTREE_GET_COUNT(storage[pid + 1]) <= maxInterior
    /\ \A n \in InteriorPages :
           /\ SBTREE_GET_COUNT(storage[n]) <= maxInterior + 1
           /\ \A j \in SlackWords : storage[n].w[j] = 0
    /\ PtrOff(pageSize, maxInterior) + idSize <= pageSize
    /\ KeyOff(maxInterior - 1) + keySize <= PtrOff(pageSize, 0)

\* a tree of two or more levels whose active nodes are all full
C27_Witness ==
    /\ levels >= 2
    /\ ActiveCount(levels - 1) = maxInterior + 1
    /\ \A l \in 0..(levels - 2) : ActiveCount(l) = maxInterior

\* the page the old root was last written to, when every node was full: the
\* old root itself on a tree of one level, else the copy written with its
\* last child pointer brought up to date
OldRootLatest(new) == IF levels = 1 THEN activePath[0] ELSE new[2 * levels - 1]
\* the node that replaced the full node of level l
NewSibling(new, l) == new[2 + 2 * (levels - 1 - l)]

\* the new root: root flag, one separator (minKey), children old root and
\* new right sibling
NewRootOk(new, root, minKey) ==
    /\ activePath'[0] = new[Len(new)]
    /\ SBTREE_IS_ROOT(root) = 1
    /\ SBTREE_GET_COUNT(root) = 1
    /\ ReadWord(root, KeyOff(0), 0) = minKey
    /\ ReadWord(root, PtrOff(pageSize, 0), 0) = OldRootLatest(new)
    /\ ReadWord(root, PtrOff(pageSize, 1), 0) = NewSibling(new, 0)
    /\ storage'[OldRootLatest(new) + 1].cnt = storage[activePath[0] + 1].cnt
    /\ SeparatorsOf(storage'[OldRootLatest(new) + 1]) =
           SeparatorsOf(storage[activePath[0] + 1])

\* every entry of the active path, by then the new node of its level, has
\* moved one level down
PathShifted(new) ==
    /\ Len(new) = 2 * levels + 1
    /\ \A l \in 0..(levels - 1) :
           /\ activePath'[l + 1] = NewSibling(new, l)
           /\ SBTREE_IS_INTERIOR(storage'[NewSibling(new, l) + 1]) = 1
           /\ SBTREE_GET_COUNT(storage'[NewSibling(new, l) + 1]) =
                  (IF l = levels - 1 THEN 1 ELSE 0)

Grown ==
    /\ lastOp'.op \in {"put", "flush"}
    /\ levels' = levels + 1
    /\ \A l \in 0..(levels - 1) : NodeFull(Cur, l, ActiveCount(l))
    /\ NewRootOk(WrittenNow, storage'[activePath'[0] + 1], FirstKey(buffer[0]))
    /\ PathShifted(WrittenNow)

\* C28: levels never decreases and changes only in a put or flush that found
\* every node of the active path full, by exactly one; the new root carries
\* the root flag and one separator, minKey, its child 0 is the old root's
\* latest page and its child 1 the new right sibling; every activePath[i]
\* has moved to activePath[i + 1] and activePath[0] is the new root
C28_RootGrowth ==
    [][levels' >= levels /\ (levels' # levels => Grown)]_vars

\* a flush has grown the tree to three levels
C28_Witness ==
    /\ lastOp.op = "flush"
    /\ levels = 3
    /\ writeLog[Len(writeLog)] = activePath[0]
    /\ SBTREE_IS_ROOT(storage[activePath[0] + 1]) = 1
    /\ SBTREE_GET_COUNT(storage[activePath[0] + 1]) = 1

\* the child getChildPageId gives for pointer c of the stored page pid on level l
ChildOf(pid, l, c) == getChildPageId(Cur, storage[pid + 1], pid, l, c)
\* the index of the last child of a node: the lowest level counts its
\* pointers, the levels above count their separators
LastChild(pg, l) ==
    IF l = levels - 1 THEN SBTREE_GET_COUNT(pg) - 1 ELSE SBTREE_GET_COUNT(pg)
LeafKeys(pg) == {ReadWord(pg, RecOff(n), 0) : n \in 0..(SBTREE_GET_COUNT(pg) - 1)}
\* the keys stored in the leaves below page pid of level l (level levels
\* being the leaves)
RECURSIVE SubtreeKeys(_, _)
SubtreeKeys(pid, l) ==
    IF pid < 0 \/ pid >= Len(storage) THEN {}
    ELSE IF l >= levels THEN LeafKeys(storage[pid + 1])
    ELSE UNION {SubtreeKeys(ChildOf(pid, l, c), l + 1) :
                    c \in 0..LastChild(storage[pid + 1], l)}

\* separator i of the node pid of level l parts the keys of child i from
\* those of child i + 1
Separates(pid, l, i) ==
    /\ \A k \in SubtreeKeys(ChildOf(pid, l, i), l + 1) :
           ULess(k, ReadWord(storage[pid + 1], KeyOff(i), 0))
    /\ i + 1 <= LastChild(storage[pid + 1], l) =>
           \A k \in SubtreeKeys(ChildOf(pid, l, i + 1), l + 1) :
               ~ULess(k, ReadWord(storage[pid + 1], KeyOff(i), 0))

DescentChildren(pid, l) ==
    {ChildOf(pid, l, c) : c \in 0..NumSeparators(storage[pid + 1])} \ {-1}
Written(p) == 1 <= p /\ p < nextPageWriteId /\ p < Len(storage)
\* the pages a descent from activePath[0] can read on its l-th step
RECURSIVE DescentAt(_)
DescentAt(l) ==
    IF l = 0 THEN {activePath[0]}
    ELSE UNION {{c \in DescentChildren(pid, l - 1) : Written(c)} : pid \in DescentAt(l - 1)}
IsInteriorPage(p) == SBTREE_IS_INTERIOR(storage[p + 1]) = 1

\* the pages the last sbtreeGet read, in order
PageRead(n) == readLog[n].post.buffer[readLog[n].slot]
GetReadsBalanced ==
    /\ Len(readLog) <= levels + 1
    /\ \A n \in 1..Len(readLog) :
           /\ n >= 2 => Written(readLog[n].pageNum)
           /\ SBTREE_IS_INTERIOR(PageRead(n)) = (IF n <= levels THEN 1 ELSE 0)

\* C30: every child id getChildPageId returns during a descent, other than
\* -1, names a written page and never page 0; every path from the root to a
\* leaf passes exactly levels interior pages; the pages sbtreeGet reads
\* inside its level loop are interior and the page it reads after the loop
\* is a leaf
C30_ChildrenValidBalanced ==
    /\ \A l \in 0..(levels - 1) : \A pid \in DescentAt(l) :
           /\ IsInteriorPage(pid)
           /\ \A c \in DescentChildren(pid, l) : Written(c)
    /\ \A pid \in DescentAt(levels) : ~IsInteriorPage(pid)
    /\ lastOp.op = "get" => GetReadsBalanced

\* a get on a tree of three levels has read three interior pages and a leaf
\* and found its key
C30_Witness ==
    /\ lastOp.op = "get"
    /\ lastOp.ret = 0
    /\ levels = 3
    /\ Len(readLog) = 4
    /\ readLog[4].pageNum > 1

(* ------------------------------------------------------------------ *)
(* sbtreeSearchNode and the comparator on their own                    *)
(* ------------------------------------------------------------------ *)
\* page sizes of the search runs: 40 bytes gives two records per leaf and
\* three separators per node, 56 bytes three records and five separators
SearchPageSizes == {40, 56}
\* keys near each other and keys 2^31 and more apart, as int32 bit patterns
NearKeys == {2, 4, 6, 8}
SearchKeys == NearKeys \cup {MinInt32 + 4, -2}
ProbeKeys == SearchKeys \cup {1, 5, 9, MinInt32 + 5}
CompareKeys == {0, 1, 2, MaxInt32 - 1, MaxInt32, MinInt32, MinInt32 + 1, -2, -1}

\* the sequences over SearchKeys of at most n keys, strictly increasing as
\* unsigned integers
IncreasingKeys(n) ==
    {s \in UNION {[1..m -> SearchKeys] : m \in 0..n} :
        \A i \in 1..(Len(s) - 1) : ULess(s[i], s[i + 1])}

\* a page holding keys at the offsets off(0), off(1), ...
RECURSIVE InteriorKeysFrom(_, _, _)
InteriorKeysFrom(pg, seps, i) ==
    IF i > Len(seps) THEN pg
    ELSE InteriorKeysFrom(WriteWord(pg, KeyOff(i - 1), seps[i]), seps, i + 1)
RECURSIVE LeafKeysFrom(_, _, _)
LeafKeysFrom(pg, keys, i) ==
    IF i > Len(keys) THEN pg
    ELSE LeafKeysFrom(WriteWord(pg, RecOff(i - 1), keys[i]), keys, i + 1)
\* an interior page with the separators seps and the given count
InteriorPageOf(ps, seps, count) ==
    [InteriorKeysFrom(ZeroPage(ps), seps, 1) EXCEPT !.cnt = FLAG_INTERIOR + count]
\* a leaf with the keys given
LeafPageOf(ps, keys) ==
    [LeafKeysFrom(ZeroPage(ps), keys, 1) EXCEPT !.cnt = Len(keys)]

InitSearch ==
    \E ps \in SearchPageSizes, build \in CmpBuilds :
        /\ pageSize = ps
        /\ numPages = 2
        /\ cmpBuild = build
        /\ Start(InitState(ps, 2, build))
        /\ it = NoIterator
        /\ itState = "none"
        /\ itOut = <<>>
        /\ inserted = <<>>
        /\ nFlush = 0
        /\ flushLog = <<>>
        /\ nReads = 0
        /\ twin = InitTwin(ps, build)
        /\ lastOp = [op |-> "init", key |-> 0, ret |-> 0, data |-> <<>>]

Untouched ==
    UNCHANGED <<pageSize, numPages, cmpBuild, storage, buffer, status, modified,
                nextPageId, nextPageWriteId, numReads, numWrites, bufferHits,
                lastHit, nextBufferPage, levels, activePath, it, itState, itOut,
                writeLog, inserted, nFlush, flushLog, ioErrors, pathOverrun,
                readLog, hitSlot, aged, twin, nReads>>

\* each run makes one call, on the state sbtreeInit left
Fresh == lastOp.op = "init"

\* sbtreeSearchNode on an interior page: the count is the number of
\* separators, or one more on a full node of the lowest level
SearchInterior ==
    /\ Fresh
    /\ \E seps \in IncreasingKeys(maxInteriorRecordsPerPage(pageSize)),
          extra \in 0..1, key \in ProbeKeys :
           /\ extra = 1 => Len(seps) = maxInteriorRecordsPerPage(pageSize)
           /\ lastOp' = [op |-> "searchInterior", key |-> key,
                         ret |-> sbtreeSearchNode(
                                     Cur, InteriorPageOf(pageSize, seps, Len(seps) + extra),
                                     key, 0),
                         data |-> <<seps, Len(seps) + extra>>]
    /\ Untouched

\* sbtreeSearchNode on a leaf, exact (range 0) or for a range (range 1)
SearchLeaf ==
    /\ Fresh
    /\ \E keys \in IncreasingKeys(maxRecordsPerPage(pageSize)),
          range \in 0..1, key \in ProbeKeys :
           lastOp' = [op |-> "searchLeaf", key |-> key,
                      ret |-> sbtreeSearchNode(Cur, LeafPageOf(pageSize, keys), key, range),
                      data |-> <<keys, range>>]
    /\ Untouched

\* uint32Compare
Compare ==
    /\ Fresh
    /\ \E a \in CompareKeys, b \in CompareKeys :
           lastOp' = [op |-> "compare", key |-> a,
                      ret |-> uint32Compare(a, b, cmpBuild), data |-> <<b>>]
    /\ Untouched

StepSearch == SearchInterior \/ SearchLeaf \/ Compare
SpecSearch == InitSearch /\ [][StepSearch]_vars

\* the number of the separators seps that are less than or equal to key
SeparatorsUpTo(seps, key) == Cardinality({i \in 1..Len(seps) : ~ULess(key, seps[i])})

\* C31: sbtreeSearchNode on an interior node with strictly increasing
\* separators s[0..m), m = min(count, maxInterior), returns the number of
\* separators that are <= key (0 below s[0], i + 1 on s[i]), a value in
\* [0, m], and 0 when count = 0
C31_InteriorSearchCounts ==
    lastOp.op = "searchInterior" =>
        /\ lastOp.ret = SeparatorsUpTo(lastOp.data[1], lastOp.key)
        /\ lastOp.ret \in 0..Len(lastOp.data[1])

\* the same for separators and keys less than 2^31 apart
C31_NearKeys ==
    (/\ lastOp.op = "searchInterior"
     /\ lastOp.key > 0
     /\ \A i \in 1..Len(lastOp.data[1]) : lastOp.data[1][i] > 0) =>
        /\ lastOp.ret = SeparatorsUpTo(lastOp.data[1], lastOp.key)
        /\ lastOp.ret \in 0..Len(lastOp.data[1])

\* the indexes of the records of keys whose key is smaller than key
SmallerThan(keys, key) == {i \in 0..(Len(keys) - 1) : ULess(keys[i + 1], key)}
\* what a leaf search has to answer: the index of the record on a hit; on a
\* miss -1 for an exact search, and for a range search the index of the
\* largest smaller key, or 0 when there is none
LeafAnswer(keys, key, range) ==
    IF \E i \in 1..Len(keys) : keys[i] = key
    THEN (CHOOSE i \in 1..Len(keys) : keys[i] = key) - 1
    ELSE IF range = 0 THEN -1
    ELSE IF SmallerThan(keys, key) = {} THEN 0
    ELSE CHOOSE i \in SmallerThan(keys, key) : \A j \in SmallerThan(keys, key) : j <= i

\* C32: sbtreeSearchNode on a leaf with strictly increasing keys returns the
\* index of the record with the search key when there is one; on a miss it
\* returns -1 for range = 0 and, for range = 1, the index of the largest
\* smaller key, or 0 when there is none or the leaf is empty: an index in
\* [0, max(count - 1, 0)] at or before the first record with key >= the
\* search key
C32_LeafSearch ==
    lastOp.op = "searchLeaf" =>
        lastOp.ret = LeafAnswer(lastOp.data[1], lastOp.key, lastOp.data[2])

\* the same for keys less than 2^31 apart
C32_NearKeys ==
    (/\ lastOp.op = "searchLeaf"
     /\ lastOp.key > 0
     /\ \A i \in 1..Len(lastOp.data[1]) : lastOp.data[1][i] > 0) =>
        lastOp.ret = LeafAnswer(lastOp.data[1], lastOp.key, lastOp.data[2])

\* the pointer stored at child index c of the page pid
StoredPointer(pid, c) == ReadWord(storage[pid + 1], PtrOff(pageSize, c), 0)
\* what the claim says getChildPageId answers for child c of page pid on level l
Remapped(pid, l, c) ==
    /\ c = SBTREE_GET_COUNT(storage[pid + 1])
    /\ l < levels - 1
    /\ pid = activePath[l]
ChildAnswer(pid, l, c) ==
    IF Remapped(pid, l, c) THEN activePath[l + 1]
    ELSE IF StoredPointer(pid, c) = 0 /\ c = SBTREE_GET_COUNT(storage[pid + 1]) THEN -1
    ELSE StoredPointer(pid, c)
\* the first leaf below the page pid of level l, following the stored pointers
RECURSIVE FirstLeaf(_, _)
FirstLeaf(pid, l) ==
    IF l >= levels \/ ~Written(pid) THEN pid ELSE FirstLeaf(StoredPointer(pid, 0), l + 1)
\* page new is the page old or a later version of the same node: both are
\* written, new was written no earlier, has at least as many children and
\* starts at the same leaf
LaterVersion(old, new, l) ==
    /\ Written(old) /\ Written(new)
    /\ old <= new
    /\ SBTREE_GET_COUNT(storage[old + 1]) <= SBTREE_GET_COUNT(storage[new + 1])
    /\ FirstLeaf(old, l) = FirstLeaf(new, l)

\* C33: getChildPageId answers activePath[level + 1] exactly when childIdx is
\* the node's count, level < levels - 1 and the node is activePath[level];
\* otherwise the stored pointer, or -1 when that pointer is 0 and childIdx
\* is the count.  The remapped id is the latest written version of the child
\* the stored pointer names.
C33_ActivePathRemap ==
    /\ \A p \in InteriorPages : \A l \in 0..(levels - 1) :
           \A c \in 0..NumSeparators(storage[p]) :
               getChildPageId(Cur, storage[p], p - 1, l, c) = ChildAnswer(p - 1, l, c)
    /\ \A l \in 0..(levels - 2) :
           LaterVersion(StoredPointer(activePath[l], ActiveCount(l)), activePath[l + 1], l + 1)

\* on a tree of three levels the pointer stored for the last child of the
\* node below the root is out of date
C33_Witness ==
    /\ levels = 3
    /\ StoredPointer(activePath[0], ActiveCount(0)) <= activePath[1]
    /\ StoredPointer(activePath[1], ActiveCount(1)) < activePath[2]

\* a step that is one sbtreeFlush call
FlushStep == lastOp'.op = "flush" /\ nFlush' = nFlush + 1
\* the key of the last record of the write buffer
LastRecordKey == ReadWord(buffer[0], RecOff(SBTREE_GET_COUNT(buffer[0]) - 1), 0)
\* the leaf was indexed under its first key as minKey and its largest key
\* plus one as separator, both being keys of records of the write buffer
FlushedAs(new) ==
    /\ SBTREE_GET_COUNT(buffer[0]) >= 1
    /\ IndexedAs(new, storage'[activePath'[levels' - 1] + 1],
                 FirstKey(buffer[0]), Inc32(LastRecordKey))
Flushed ==
    /\ lastOp'.ret = 0
    /\ LeafWrittenFirst(WrittenNow)
    /\ FlushedAs(WrittenNow)
    /\ buffer'[0] = ZeroPage(pageSize)

\* C34: sbtreeFlush writes the write buffer as a leaf, updates the index with
\* the first key of the write buffer as minKey and its largest key plus one
\* as separator, both taken from records of the buffer, and leaves a zeroed
\* write buffer, in every state of the write buffer, the empty one included
C34_FlushIndexesLeaf ==
    [][FlushStep => Flushed]_vars

\* the same for a write buffer that holds a record
C34_NonEmptyBuffer ==
    [][(FlushStep /\ SBTREE_GET_COUNT(buffer[0]) >= 1) => Flushed]_vars

\* a step that is one sbtreeGet, sbtreeInitIterator or sbtreeNext call
ReadStep == lastOp'.op \in {"get", "iter", "next"}

\* C35: sbtreeGet, sbtreeInitIterator and sbtreeNext never write a page and
\* leave the write buffer (slot 0), activePath, levels, nextPageId,
\* nextPageWriteId and the storage unchanged; no readPage call of theirs
\* loads into slot 0
C35_ReadsLeaveTree ==
    [][ReadStep =>
          /\ buffer'[0] = buffer[0]
          /\ status'[0] = status[0]
          /\ UNCHANGED <<activePath, levels, nextPageId, nextPageWriteId,
                         storage, numWrites, writeLog>>
          /\ \A n \in 1..Len(readLog') : readLog'[n].slot \in 1..(numPages - 1)]_vars

\* an iterator has moved on to a further leaf while the write buffer holds a record
C35_Witness ==
    /\ lastOp.op = "next"
    /\ lastOp.ret = 1
    /\ Len(readLog) >= 2
    /\ Len(itOut) >= 2
    /\ SBTREE_GET_COUNT(buffer[0]) >= 1

\* the keys whose records are only in the write buffer
BufferedKeys == InsertedKeys \ WrittenKeys
\* nothing but the empty root has been written
NoLeafWritten == Len(writeLog) = 1

\* C36: sbtreeGet looks only at pages written to the storage: it returns -1
\* for a key whose record is still only in the write buffer, and for every
\* key while no leaf has been written
C36_GetSkipsWriteBuffer ==
    (lastOp.op = "get" /\ (lastOp.key \in BufferedKeys \/ NoLeafWritten)) =>
        lastOp.ret = -1

\* on a tree of two levels a get of the key just put, which is in the write
\* buffer, has read the root and the node below it
C36_Witness ==
    /\ lastOp.op = "get"
    /\ lastOp.key \in BufferedKeys
    /\ lastOp.key = LastKey
    /\ lastOp.ret = -1
    /\ levels = 2
    /\ Len(readLog) = 2


(* ------------------------------------------------------------------ *)
(* sbtreeNext on an iterator that has ended                            *)
(* ------------------------------------------------------------------ *)
\* number of sbtreeNext calls the driver makes after the first one that
\* returned 0
MaxNextAgain == 3

\* the driver calls sbtreeNext (lines 656-741) again on the iterator whose
\* last sbtreeNext returned 0; nothing is put in between
NextAgain ==
    /\ Healthy
    /\ itState = "ended"
    /\ nReads <= MaxNextAgain
    /\ NextReturns(sbtreeNext(Cur, it))
    /\ nReads' = nReads + 1
    /\ UNCHANGED <<inserted, nFlush, flushLog, twin>>

StepIter == Put \/ Flush \/ InitIterator \/ Next \/ NextAgain

SpecIter == Init /\ [][StepIter]_vars

\* a call of sbtreeNext on an iterator whose previous call returned 0
NextAfterEnd == itState = "ended" /\ lastOp'.op = "next" /\ nReads' = nReads + 1

\* C37: once sbtreeNext has returned 0 for an iterator, every later
\* sbtreeNext call on it, with no puts in between, returns 0 as well and
\* yields no further record
C37_ExhaustionAbsorbing ==
    [][NextAfterEnd => (lastOp'.ret = 0 /\ itOut' = itOut /\ itState' = "ended")]_vars

\* C37 for an iterator whose initial descent could not resolve a child:
\* currentBuffer stays NULL and every call returns 0
C37_UnresolvedDescent ==
    [][(NextAfterEnd /\ it.currentBuffer = NULL) => (lastOp'.ret = 0 /\ itOut' = itOut)]_vars

(* ------------------------------------------------------------------ *)
(* sbtreeGet between the sbtreeNext calls of an open iterator          *)
(* ------------------------------------------------------------------ *)
\* number of sbtreeGet calls made while the iterator is open
MaxGetsBetween == 2
\* number of records put before the iterator is opened
MaxBetweenPuts == 5

\* sbtreePut of the next key, KeyStep above the last one
PutBetween ==
    /\ Healthy
    /\ Building
    /\ NumPut < MaxBetweenPuts
    /\ PutRecord(Cur, KeyFor(NumPut + 1, FALSE), DataFor(NumPut + 1))
    /\ UNCHANGED <<it, itState, itOut, nFlush, flushLog, nReads, twin>>

\* sbtreeInitIterator; from here on the twin is the same program, with the
\* same pool, that makes the same sbtreeNext calls and no sbtreeGet
InitIteratorAlone ==
    /\ Healthy
    /\ nReads < MaxReads
    /\ \E rg \in IterArgs :
        /\ InitIteratorReturns(
               sbtreeInitIterator(Cur, [NoIterator EXCEPT !.minKey = rg[1],
                                                          !.maxKey = rg[2]]))
        /\ TwinInitIteratorReturns(
               sbtreeInitIterator(Cur, [NoIterator EXCEPT !.minKey = rg[1],
                                                          !.maxKey = rg[2]]))
    /\ itState' = "open"
    /\ itOut' = <<>>
    /\ nReads' = nReads + 1
    /\ UNCHANGED <<inserted, nFlush, flushLog>>

\* sbtreeNext, in the program and in the twin
NextAlone ==
    /\ Healthy
    /\ itState = "open"
    /\ NextReturns(sbtreeNext(Cur, it))
    /\ TwinNextReturns(sbtreeNext(TwinState, twin.it))
    /\ UNCHANGED <<inserted, nFlush, flushLog, nReads>>

\* sbtreeGet (lines 542-569) while the iterator is open; the twin makes no call
GetBetween ==
    /\ Healthy
    /\ itState = "open"
    /\ nReads <= MaxGetsBetween
    /\ \E key \in GetArgs : GetReturns(sbtreeGet(Cur, key), key)
    /\ nReads' = nReads + 1
    /\ UNCHANGED <<it, itState, itOut, inserted, nFlush, flushLog, twin>>

StepBetween == PutBetween \/ Flush \/ InitIteratorAlone \/ NextAlone \/ GetBetween

SpecBetween == Init /\ [][StepBetween]_vars

\* C38: sbtreeGet calls between the sbtreeNext calls of an open iterator do
\* not change what the iterator returns -- every sbtreeNext returns the same
\* value and the same record as in the run without the gets, for every
\* numPages >= 2
C38_GetsLeaveIterator == lastOp.op = "next" => SameAsTwin

\* C38 for pools of three or more slots: a get that misses evicts the
\* iterator's leaf by round robin, so this fails as well
C38_LargerPools == (lastOp.op = "next" /\ numPages >= 3) => SameAsTwin

(* ------------------------------------------------------------------ *)
(* The default comparator                                              *)
(* ------------------------------------------------------------------ *)
\* the value returned by the comparator call compare(a, b) agrees with the
\* order of a and b as unsigned 32-bit integers
OrdersUnsigned(a, b, ret) ==
    /\ ret < 0 <=> ULess(a, b)
    /\ ret = 0 <=> a = b
    /\ ret > 0 <=> ULess(b, a)

\* C39: the default comparator orders keys as unsigned 32-bit integers --
\* for every pair of key values it returns a negative value iff a < b, zero
\* iff a = b and a positive value iff a > b
C39_ComparatorUnsigned ==
    lastOp.op = "compare" => OrdersUnsigned(lastOp.key, lastOp.data[1], lastOp.ret)

\* C39 for two keys on the same side of 2^31, whose int32 values are in the
\* same order as the keys
C39_SameHalf ==
    (lastOp.op = "compare" /\ (lastOp.key < 0 <=> lastOp.data[1] < 0))
        => OrdersUnsigned(lastOp.key, lastOp.data[1], lastOp.ret)

====
